---- MODULE Spec2Model ----
(***************************************************************************)
(* Scope Analyzer of freelancer-shield: the rule-based classifier, the     *)
(* AI classifier with its fallback, and the analyze_scope entry points.    *)
(*                                                                         *)
(* Texts are sequences of one-character strings.  An optional value is a   *)
(* sequence of length 0 (None) or 1 (the value).  Scores and confidences   *)
(* are exact fractions [n, d] in lowest terms with d > 0; the code's       *)
(* floats differ from them by at most one rounding step of a double.       *)
(***************************************************************************)
EXTENDS Integers, Sequences, FiniteSets, TLC

None == <<>>
Some(v) == <<v>>

(***************************************************************************)
(* Fractions                                                               *)
(***************************************************************************)
Abs(x) == IF x < 0 THEN -x ELSE x

RECURSIVE GCD(_, _)
GCD(a, b) == IF b = 0 THEN a ELSE GCD(b, a % b)

Frac(n, d) ==
  LET g == GCD(Abs(n), d) IN [n |-> n \div g, d |-> d \div g]

FLess(a, b) == a.n * b.d < b.n * a.d
FLeq(a, b) == a.n * b.d <= b.n * a.d
FAdd(a, b) == Frac(a.n * b.d + b.n * a.d, a.d * b.d)
FSub(a, b) == Frac(a.n * b.d - b.n * a.d, a.d * b.d)
FMulInt(k, a) == Frac(k * a.n, a.d)
\* Python's min(a, b) and max(a, b): the first argument wins a tie.
FMin(a, b) == IF FLess(b, a) THEN b ELSE a
\* max(a, b) written as min(a, b)
FMax_taking_smaller(a, b) == IF FLess(b, a) THEN b ELSE a
FMax(a, b) == IF FLess(a, b) THEN b ELSE a

(***************************************************************************)
(* Characters and str methods                                              *)
(***************************************************************************)
UpperCaseLetters ==
  <<"A","B","C","D","E","F","G","H","I","J","K","L","M",
    "N","O","P","Q","R","S","T","U","V","W","X","Y","Z">>
LowerCaseLetters ==
  <<"a","b","c","d","e","f","g","h","i","j","k","l","m",
    "n","o","p","q","r","s","t","u","v","w","x","y","z">>
\* [a-z]
AsciiLower == {LowerCaseLetters[i] : i \in DOMAIN LowerCaseLetters}
AsciiUpper == {UpperCaseLetters[i] : i \in DOMAIN LowerCaseLetters}
\* \s and str.isspace
Whitespace == {" ", "\t", "\n", "\r"}
\* \w: letters, digits and the underscore
WordChars ==
  AsciiLower \cup AsciiUpper \cup {"0","1","2","3","4","5","6","7","8","9","_"}

\* str.lower() on one character
lower_char(c) ==
  IF c \in AsciiUpper
    THEN LowerCaseLetters[CHOOSE i \in DOMAIN LowerCaseLetters : UpperCaseLetters[i] = c]
    ELSE c
str_lower(t) == [i \in 1..Len(t) |-> lower_char(t[i])]

RECURSIVE str_lstrip(_)
str_lstrip(t) ==
  IF t # <<>> /\ Head(t) \in Whitespace THEN str_lstrip(Tail(t)) ELSE t
RECURSIVE str_rstrip(_)
str_rstrip(t) ==
  IF t # <<>> /\ t[Len(t)] \in Whitespace
    THEN str_rstrip(SubSeq(t, 1, Len(t) - 1))
    ELSE t
str_strip(t) == str_rstrip(str_lstrip(t))

\* re.sub(r"\s+", " ", t)
RECURSIVE re_sub_whitespace(_)
re_sub_whitespace(t) ==
  IF t = <<>> THEN <<>>
  ELSE IF Head(t) \in Whitespace
    THEN <<" ">> \o re_sub_whitespace(str_lstrip(Tail(t)))
    ELSE <<Head(t)>> \o re_sub_whitespace(Tail(t))

\* the Python operator "p in t" on strings
str_contains(t, p) ==
  \/ p = <<>>
  \/ /\ Len(p) <= Len(t)
     /\ \E i \in 0..(Len(t) - Len(p)) :
          t[i + 1] = p[1] /\ SubSeq(t, i + 1, i + Len(p)) = p

\* sep.join(parts)
RECURSIVE str_join(_, _)
str_join(sep, parts) ==
  IF parts = <<>> THEN <<>>
  ELSE IF Len(parts) = 1 THEN parts[1]
  ELSE parts[1] \o sep \o str_join(sep, Tail(parts))

(***************************************************************************)
(* indicators.py                                                           *)
(***************************************************************************)

SCOPE_CREEP_PHRASES ==
  << <<"a","l","s","o">>,
     <<"a","d","d","i","t","i","o","n","a","l","l","y">>,
     <<"o","n","e"," ","m","o","r","e"," ","t","h","i","n","g">>,
     <<"q","u","i","c","k"," ","a","d","d","i","t","i","o","n">>,
     <<"w","h","i","l","e"," ","y","o","u","'","r","e"," ","a","t"," ","i","t">>,
     <<"s","h","o","u","l","d","n","'","t"," ","t","a","k","e"," ","l","o","n","g">>,
     <<"r","e","a","l"," ","q","u","i","c","k">>,
     <<"e","a","s","y"," ","c","h","a","n","g","e">>,
     <<"s","m","a","l","l"," ","t","w","e","a","k">>,
     <<"j","u","s","t"," ","a","d","d">>,
     <<"c","a","n"," ","y","o","u"," ","a","l","s","o">>,
     <<"b","y"," ","t","h","e"," ","w","a","y">>,
     <<"o","h"," ","a","n","d">>,
     <<"a","l","m","o","s","t"," ","f","o","r","g","o","t">>,
     <<"o","n","e"," ","m","o","r","e"," ","r","e","q","u","e","s","t">>,
     <<"t","i","n","y"," ","f","a","v","o","r">>,
     <<"s","i","m","p","l","e"," ","a","d","d","i","t","i","o","n">>,
     <<"m","i","n","o","r"," ","u","p","d","a","t","e">> >>

REVISION_PHRASES ==
  << <<"c","h","a","n","g","e">>,
     <<"u","p","d","a","t","e">>,
     <<"m","o","d","i","f","y">>,
     <<"r","e","v","i","s","e">>,
     <<"a","d","j","u","s","t">>,
     <<"t","w","e","a","k">>,
     <<"d","i","f","f","e","r","e","n","t">>,
     <<"i","n","s","t","e","a","d">>,
     <<"a","c","t","u","a","l","l","y">>,
     <<"o","n"," ","s","e","c","o","n","d"," ","t","h","o","u","g","h","t">> >>

CLARIFICATION_PHRASES ==
  << <<"w","h","a","t"," ","d","o"," ","y","o","u"," ","m","e","a","n">>,
     <<"c","a","n"," ","y","o","u"," ","e","x","p","l","a","i","n">>,
     <<"n","o","t"," ","s","u","r","e"," ","a","b","o","u","t">>,
     <<"q","u","e","s","t","i","o","n"," ","a","b","o","u","t">>,
     <<"c","l","a","r","i","f","y">>,
     <<"c","o","n","f","u","s","e","d">>,
     <<"u","n","d","e","r","s","t","a","n","d">> >>

(***************************************************************************)
(* Python values, exceptions, and the AnalysisResult model (models.py)     *)
(***************************************************************************)
PyStr(s) == [type |-> "str", val |-> s]
PyInt(i) == [type |-> "int", val |-> i]
PyFloat(f) == [type |-> "float", val |-> f]
PyList(l) == [type |-> "list", val |-> l]
PyUUID(u) == [type |-> "UUID", val |-> u]
PyNone == [type |-> "NoneType"]
\* an Optional field of a DTO as a Python value
PyOptInt(o) == IF o = None THEN PyNone ELSE PyInt(o[1])
PyOptUUID(o) == IF o = None THEN PyNone ELSE PyUUID(o[1])

Return(v) == [kind |-> "return", value |-> v]
Raise(e) == [kind |-> "raise", exc |-> e]

ScopeClassificationType ==
  {"in_scope", "out_of_scope", "clarification_needed", "revision"}

\* confidence: float, without the bounds
confidence_field_ok_unbounded(v) == v.type = "float"

\* Field(ge=0.0, le=1.0)
confidence_field_ok(v) ==
  /\ v.type = "float"
  /\ FLeq(Frac(0, 1), v.val)
  /\ FLeq(v.val, Frac(1, 1))

\* AnalysisResult with classification: str in place of the Literal
AnalysisResult_unvalidated(classification, confidence, reasoning, matched_scope_item_index, matched_scope_item_id, suggested_action, scope_creep_indicators) ==
  IF /\ classification.type = "str"
     /\ confidence_field_ok(confidence)
     /\ reasoning.type = "str"
     /\ matched_scope_item_index.type \in {"int", "NoneType"}
     /\ suggested_action.type = "str"
     /\ scope_creep_indicators.type = "list"
  THEN Return([
         classification |-> classification.val,
         confidence |-> confidence.val,
         reasoning |-> reasoning.val,
         matched_scope_item_index |->
           IF matched_scope_item_index.type = "int"
             THEN Some(matched_scope_item_index.val) ELSE None,
         matched_scope_item_id |->
           IF matched_scope_item_id.type = "UUID"
             THEN Some(matched_scope_item_id.val) ELSE None,
         suggested_action |-> suggested_action.val,
         scope_creep_indicators |->
           [i \in DOMAIN scope_creep_indicators.val |->
              scope_creep_indicators.val[i].val]])
  ELSE Raise("ValidationError")

\* AnalysisResult(...): pydantic validates every field at construction.
AnalysisResult(classification, confidence, reasoning, matched_scope_item_index, matched_scope_item_id, suggested_action, scope_creep_indicators) ==
  IF /\ classification.type = "str"
     /\ classification.val \in ScopeClassificationType
     /\ confidence_field_ok(confidence)
     /\ reasoning.type = "str"
     /\ matched_scope_item_index.type \in {"int", "NoneType"}
     /\ matched_scope_item_id.type \in {"UUID", "NoneType"}
     /\ suggested_action.type = "str"
     /\ scope_creep_indicators.type = "list"
     /\ \A i \in DOMAIN scope_creep_indicators.val :
          scope_creep_indicators.val[i].type = "str"
  THEN Return([
         classification |-> classification.val,
         confidence |-> confidence.val,
         reasoning |-> reasoning.val,
         matched_scope_item_index |->
           IF matched_scope_item_index.type = "int"
             THEN Some(matched_scope_item_index.val) ELSE None,
         matched_scope_item_id |->
           IF matched_scope_item_id.type = "UUID"
             THEN Some(matched_scope_item_id.val) ELSE None,
         suggested_action |-> suggested_action.val,
         scope_creep_indicators |->
           [i \in DOMAIN scope_creep_indicators.val |->
              scope_creep_indicators.val[i].val]])
  ELSE Raise("ValidationError")

(***************************************************************************)
(* rules_analyzer.py                                                       *)
(***************************************************************************)
_normalize_text(text) == re_sub_whitespace(str_strip(str_lower(text)))

\* end of the run of [a-z] that starts at position i
RECURSIVE letter_run_end(_, _)
letter_run_end(t, i) ==
  IF i < Len(t) /\ t[i + 1] \in AsciiLower THEN letter_run_end(t, i + 1) ELSE i

\* re.findall(r"\b[a-z]+\b", normalized): a run of letters is a word when the
\* characters on both sides are not word characters (\b is a \w-\W boundary)
re_findall_words(normalized) ==
  LET starts == {i \in 1..Len(normalized) :
                   /\ normalized[i] \in AsciiLower
                   /\ (i = 1 \/ normalized[i - 1] \notin WordChars)}
      words == {i \in starts :
                  LET e == letter_run_end(normalized, i)
                  IN  e = Len(normalized) \/ normalized[e + 1] \notin WordChars}
  IN  {SubSeq(normalized, i, letter_run_end(normalized, i)) : i \in words}

_tokenize(text) == re_findall_words(_normalize_text(text))
\* _find_phrases looking in the text as it was given
_find_phrases_in_given_text(text, phrases) ==
  LET found(phrase) == str_contains(text, str_lower(phrase))
  IN  SelectSeq(phrases, found)

_find_phrases(text, phrases) ==
  LET normalized == _normalize_text(text)
      found(phrase) == str_contains(normalized, str_lower(phrase))
  IN  SelectSeq(phrases, found)
\* jaccard dividing by the words of the first text
jaccard_of_first(words1, words2) ==
  IF words1 = {} \/ words2 = {} THEN Frac(0, 1)
  ELSE Frac(Cardinality(words1 \cap words2), Cardinality(words1))

\* jaccard dividing by the words of the first text and those of the second,
\* shared words counted twice
jaccard_counting_both(words1, words2) ==
  IF words1 = {} \/ words2 = {} THEN Frac(0, 1)
  ELSE Frac(Cardinality(words1 \cap words2), Cardinality(words1) + Cardinality(words2))

\* lines 33-39: the Jaccard index of two word sets
jaccard(words1, words2) ==
  IF words1 = {} \/ words2 = {} THEN Frac(0, 1)
  ELSE Frac(Cardinality(words1 \cap words2), Cardinality(words1 \cup words2))

_calculate_word_overlap(text1, text2) == jaccard(_tokenize(text1), _tokenize(text2))

\* item.title, plus " " + item.description when the description is truthy
scope_text(item) ==
  IF item.description # None /\ item.description[1] # <<>>
    THEN item.title \o <<" ">> \o item.description[1]
    ELSE item.title
\* better_match that takes the index and the score of the item and leaves
\* the id as it was
better_match_keeping_id(best, i, item, score) ==
  IF FLess(best.score, score)
    THEN [index |-> Some(i), score |-> score, id |-> best.id]
    ELSE best

\* better_match with score >= best_score: the last of equal scores wins
better_match_last_wins(best, i, item, score) ==
  IF FLeq(best.score, score)
    THEN [index |-> Some(i), score |-> score, id |-> item.id]
    ELSE best

\* lines 61-64: item i (counted from 0) replaces the best match so far only
\* with a strictly greater score
better_match(best, i, item, score) ==
  IF FLess(best.score, score)
    THEN [index |-> Some(i), score |-> score, id |-> item.id]
    ELSE best

\* the for loop of _find_best_scope_match from the item at position i on
RECURSIVE best_match_loop(_, _, _, _)
best_match_loop(request_content, scope_items, i, best) ==
  IF i > Len(scope_items) THEN best
  ELSE best_match_loop(request_content, scope_items, i + 1,
         better_match(best, i - 1, scope_items[i],
           _calculate_word_overlap(request_content, scope_text(scope_items[i]))))

_find_best_scope_match(request_content, scope_items) ==
  IF scope_items = <<>>
    THEN [index |-> None, score |-> Frac(0, 1), id |-> None]
    ELSE best_match_loop(request_content, scope_items, 1,
           [index |-> None, score |-> Frac(0, 1), id |-> None])

ActionInScope ==
  <<"P","r","o","c","e","e","d"," ","w","i","t","h"," ","t","h","e"," ","w","o","r","k"," ","a","s"," ","i","t"," ","f","a","l","l","s"," ","w","i","t","h","i","n"," ","t","h","e"," ","a","g","r","e","e","d"," ","s","c","o","p","e",".">>
ActionOutOfScope ==
  <<"S","e","n","d"," ","a"," ","p","r","o","p","o","s","a","l"," ","o","r"," ","q","u","o","t","e"," ","f","o","r"," ","t","h","i","s"," ","a","d","d","i","t","i","o","n","a","l"," ","w","o","r","k"," ","b","e","f","o","r","e"," ","p","r","o","c","e","e","d","i","n","g",".">>
ActionClarification ==
  <<"R","e","s","p","o","n","d"," ","t","o"," ","t","h","e"," ","c","l","i","e","n","t","'","s"," ","q","u","e","s","t","i","o","n"," ","t","o"," ","c","l","a","r","i","f","y"," ","t","h","e"," ","r","e","q","u","i","r","e","m","e","n","t","s",".">>
ActionRevision ==
  <<"D","i","s","c","u","s","s"," ","t","h","e"," ","r","e","v","i","s","i","o","n"," ","w","i","t","h"," ","t","h","e"," ","c","l","i","e","n","t"," ","-"," ","m","i","n","o","r"," ","c","h","a","n","g","e","s"," ","m","a","y"," ","b","e"," ","i","n","c","l","u","d","e","d",","," ","m","a","j","o","r"," ","c","h","a","n","g","e","s"," ","m","a","y"," ","r","e","q","u","i","r","e"," ","a"," ","c","h","a","n","g","e"," ","o","r","d","e","r",".">>

_get_suggested_action(classification) ==
  CASE classification = "in_scope" -> ActionInScope
    [] classification = "out_of_scope" -> ActionOutOfScope
    [] classification = "clarification_needed" -> ActionClarification
    [] classification = "revision" -> ActionRevision

ReasonNoScopeItems ==
  <<"N","o"," ","s","c","o","p","e"," ","i","t","e","m","s"," ","d","e","f","i","n","e","d"," ","-"," ","c","a","n","n","o","t"," ","d","e","t","e","r","m","i","n","e"," ","i","f"," ","r","e","q","u","e","s","t"," ","i","s"," ","i","n"," ","s","c","o","p","e",".">>
ReasonClarification ==
  <<"C","l","i","e","n","t"," ","a","p","p","e","a","r","s"," ","t","o"," ","b","e"," ","a","s","k","i","n","g"," ","f","o","r"," ","c","l","a","r","i","f","i","c","a","t","i","o","n","."," ","D","e","t","e","c","t","e","d"," ","p","h","r","a","s","e","s",":"," ">>
ReasonRevision ==
  <<"C","l","i","e","n","t"," ","r","e","q","u","e","s","t","i","n","g"," ","c","h","a","n","g","e","s"," ","t","o"," ","e","x","i","s","t","i","n","g"," ","s","c","o","p","e"," ","i","t","e","m","."," ","D","e","t","e","c","t","e","d"," ","r","e","v","i","s","i","o","n"," ","p","h","r","a","s","e","s",":"," ">>
ReasonRevisionMatched ==
  <<"."," ","M","a","t","c","h","e","d"," ","s","c","o","p","e"," ","i","t","e","m",":"," ","'">>
ReasonCreepMatch ==
  <<"R","e","q","u","e","s","t"," ","m","a","t","c","h","e","s"," ","s","c","o","p","e"," ","i","t","e","m"," ","'">>
ReasonCreepLanguage ==
  <<"'"," ","b","u","t"," ","c","o","n","t","a","i","n","s"," ","s","c","o","p","e"," ","c","r","e","e","p"," ","l","a","n","g","u","a","g","e",":"," ">>
ReasonReviewCarefully ==
  <<"."," ","R","e","v","i","e","w"," ","c","a","r","e","f","u","l","l","y",".">>
ReasonCreepIndicators ==
  <<"R","e","q","u","e","s","t"," ","c","o","n","t","a","i","n","s"," ","s","c","o","p","e"," ","c","r","e","e","p"," ","i","n","d","i","c","a","t","o","r","s",":"," ">>
ReasonNoStrongMatch ==
  <<"."," ","N","o"," ","s","t","r","o","n","g"," ","m","a","t","c","h"," ","t","o"," ","e","x","i","s","t","i","n","g"," ","s","c","o","p","e"," ","i","t","e","m","s",".">>
ReasonMatches ==
  <<"R","e","q","u","e","s","t"," ","m","a","t","c","h","e","s"," ","s","c","o","p","e"," ","i","t","e","m",":"," ","'">>
ReasonWith ==
  <<"'"," ","w","i","t","h"," ">>
ReasonSimilarity ==
  <<" ","s","i","m","i","l","a","r","i","t","y",".">>
ReasonPartial ==
  <<"P","a","r","t","i","a","l"," ","m","a","t","c","h"," ","t","o"," ","s","c","o","p","e"," ","i","t","e","m",":"," ","'">>
ReasonConsider ==
  <<"'","."," ","C","o","n","s","i","d","e","r"," ","c","l","a","r","i","f","y","i","n","g"," ","w","i","t","h"," ","c","l","i","e","n","t",".">>
ReasonNoMatch ==
  <<"N","o"," ","s","i","g","n","i","f","i","c","a","n","t"," ","m","a","t","c","h"," ","t","o"," ","a","n","y"," ","s","c","o","p","e"," ","i","t","e","m","s","."," ","R","e","q","u","e","s","t"," ","m","a","y"," ","b","e"," ","o","u","t","s","i","d","e"," ","p","r","o","j","e","c","t"," ","s","c","o","p","e",".">>
CommaSpace ==
  <<","," ">>

DecimalDigits == <<"0","1","2","3","4","5","6","7","8","9">>
\* str(k) for k >= 0
RECURSIVE int_to_str(_)
int_to_str(k) ==
  IF k < 10 THEN <<DecimalDigits[k + 1]>>
  ELSE int_to_str(k \div 10) \o <<DecimalDigits[(k % 10) + 1]>>

\* f"{score:.0%}": the percentage rounded to an integer, ties to even
format_percent(score) ==
  LET q == (100 * score.n) \div score.d
      r == (100 * score.n) % score.d
      rounded == IF 2 * r > score.d THEN q + 1
                 ELSE IF 2 * r = score.d THEN q + (q % 2)
                 ELSE q
  IN  int_to_str(rounded) \o <<"%">>

\* request.scope_items[matched_index].title
matched_title(request, matched_index) ==
  request.scope_items[matched_index[1] + 1].title

\* a list[str] as a Python value
PyStrList(strings) == PyList([i \in DOMAIN strings |-> PyStr(strings[i])])
\* empty_scope_result with an action of its own
empty_scope_result_advising_scope(scope_creep_indicators) ==
  AnalysisResult(PyStr("out_of_scope"), PyFloat(Frac(9, 10)),
    PyStr(ReasonNoScopeItems), PyNone, PyNone,
    PyStr(<<"D","e","f","i","n","e"," ","t","h","e"," ","p","r","o","j","e","c","t"," ","s","c","o","p","e"," ","b","e","f","o","r","e"," ","a","n","a","l","y","z","i","n","g"," ","r","e","q","u","e","s","t","s",".">>),
    PyStrList(scope_creep_indicators))

\* empty_scope_result with the indicators left at the field's default
empty_scope_result_without_indicators(scope_creep_indicators) ==
  AnalysisResult(PyStr("out_of_scope"), PyFloat(Frac(9, 10)),
    PyStr(ReasonNoScopeItems), PyNone, PyNone,
    PyStr(_get_suggested_action("out_of_scope")), PyStrList(<<>>))

\* lines 105-113: the result for a request without scope items
empty_scope_result(scope_creep_indicators) ==
  AnalysisResult(PyStr("out_of_scope"), PyFloat(Frac(9, 10)),
    PyStr(ReasonNoScopeItems), PyNone, PyNone,
    PyStr(_get_suggested_action("out_of_scope")), PyStrList(scope_creep_indicators))

\* lines 115-197: steps 1 to 5, given the detected phrases and the best match
rules_steps(request, clarification_indicators, revision_indicators, scope_creep_indicators, match) ==
  LET matched_index == match.index
      match_score == match.score
      matched_id == match.id
      indicators == PyStrList(scope_creep_indicators)
      n == Len(scope_creep_indicators)
  IN
  \* Step 1: Check for clarification
  IF clarification_indicators # <<>> THEN
    AnalysisResult(PyStr("clarification_needed"), PyFloat(Frac(85, 100)),
      PyStr(ReasonClarification \o str_join(CommaSpace, clarification_indicators)),
      IF FLess(Frac(1, 10), match_score) THEN PyOptInt(matched_index) ELSE PyNone,
      IF FLess(Frac(1, 10), match_score) THEN PyOptUUID(matched_id) ELSE PyNone,
      PyStr(_get_suggested_action("clarification_needed")), indicators)
  \* Step 2: Check for revision with scope match
  ELSE IF revision_indicators # <<>> /\ FLess(Frac(15, 100), match_score) THEN
    IF matched_index = None THEN Raise("TypeError") ELSE
    AnalysisResult(PyStr("revision"),
      PyFloat(FMin(Frac(8, 10), FAdd(Frac(5, 10), match_score))),
      PyStr(ReasonRevision \o str_join(CommaSpace, revision_indicators)
            \o ReasonRevisionMatched \o matched_title(request, matched_index)
            \o <<"'">>),
      PyOptInt(matched_index), PyOptUUID(matched_id),
      PyStr(_get_suggested_action("revision")), indicators)
  \* Step 3: Check for scope creep indicators
  ELSE IF scope_creep_indicators # <<>> THEN
    IF FLess(Frac(4, 10), match_score) THEN
      IF matched_index = None THEN Raise("TypeError") ELSE
      AnalysisResult(PyStr("in_scope"),
        PyFloat(FMax(Frac(5, 10), FSub(Frac(7, 10), FMulInt(n, Frac(1, 10))))),
        PyStr(ReasonCreepMatch \o matched_title(request, matched_index)
              \o ReasonCreepLanguage
              \o str_join(CommaSpace, scope_creep_indicators)
              \o ReasonReviewCarefully),
        PyOptInt(matched_index), PyOptUUID(matched_id),
        PyStr(_get_suggested_action("in_scope")), indicators)
    ELSE
      AnalysisResult(PyStr("out_of_scope"),
        PyFloat(FMin(Frac(95, 100), FAdd(Frac(7, 10), FMulInt(n, Frac(5, 100))))),
        PyStr(ReasonCreepIndicators \o str_join(CommaSpace, scope_creep_indicators)
              \o ReasonNoStrongMatch),
        PyNone, PyNone,
        PyStr(_get_suggested_action("out_of_scope")), indicators)
  \* Step 4: Fuzzy match against scope items
  ELSE IF FLess(Frac(3, 10), match_score) THEN
    IF matched_index = None THEN Raise("TypeError") ELSE
    AnalysisResult(PyStr("in_scope"),
      PyFloat(FMin(Frac(95, 100), FAdd(Frac(5, 10), match_score))),
      PyStr(ReasonMatches \o matched_title(request, matched_index) \o ReasonWith
            \o format_percent(match_score) \o ReasonSimilarity),
      PyOptInt(matched_index), PyOptUUID(matched_id),
      PyStr(_get_suggested_action("in_scope")), indicators)
  ELSE IF FLess(Frac(15, 100), match_score) THEN
    IF matched_index = None THEN Raise("TypeError") ELSE
    AnalysisResult(PyStr("in_scope"),
      PyFloat(FAdd(Frac(5, 10), match_score)),
      PyStr(ReasonPartial \o matched_title(request, matched_index)
            \o ReasonConsider),
      PyOptInt(matched_index), PyOptUUID(matched_id),
      PyStr(_get_suggested_action("in_scope")), indicators)
  \* Step 5: Default to out of scope
  ELSE
    AnalysisResult(PyStr("out_of_scope"), PyFloat(Frac(6, 10)),
      PyStr(ReasonNoMatch), PyNone, PyNone,
      PyStr(_get_suggested_action("out_of_scope")), indicators)

\* rules_decision without the empty-scope guard
rules_decision_unguarded(request, clarification_indicators, revision_indicators, scope_creep_indicators, match) ==
  rules_steps(request, clarification_indicators, revision_indicators,
              scope_creep_indicators, match)

\* rules_decision with the revision check ahead of the clarification check
rules_decision_revision_first(request, clarification_indicators, revision_indicators, scope_creep_indicators, match) ==
  IF request.scope_items = <<>>
    THEN empty_scope_result(scope_creep_indicators)
    ELSE IF revision_indicators # <<>> /\ FLess(Frac(15, 100), match.score)
      THEN rules_steps(request, <<>>, revision_indicators,
                       scope_creep_indicators, match)
      ELSE rules_steps(request, clarification_indicators, revision_indicators,
                       scope_creep_indicators, match)

\* rules_decision with the scope-creep check ahead of the revision check
rules_decision_creep_first(request, clarification_indicators, revision_indicators, scope_creep_indicators, match) ==
  IF request.scope_items = <<>>
    THEN empty_scope_result(scope_creep_indicators)
    ELSE IF scope_creep_indicators # <<>>
      THEN rules_steps(request, clarification_indicators, <<>>,
                       scope_creep_indicators, match)
      ELSE rules_steps(request, clarification_indicators, revision_indicators,
                       scope_creep_indicators, match)

\* rules_decision without the partial-match branch of the fuzzy step: a
\* score of 0.3 or less goes to the default
rules_decision_without_partial_match(request, clarification_indicators, revision_indicators, scope_creep_indicators, match) ==
  IF request.scope_items = <<>>
    THEN empty_scope_result(scope_creep_indicators)
    ELSE IF /\ clarification_indicators = <<>>
            /\ revision_indicators = <<>>
            /\ scope_creep_indicators = <<>>
            /\ FLeq(match.score, Frac(3, 10))
      THEN rules_steps(request, clarification_indicators, revision_indicators,
                       scope_creep_indicators, [match EXCEPT !.score = Frac(0, 1)])
      ELSE rules_steps(request, clarification_indicators, revision_indicators,
                       scope_creep_indicators, match)

\* rules_decision without the scope-creep step
rules_decision_ignoring_scope_creep(request, clarification_indicators, revision_indicators, scope_creep_indicators, match) ==
  IF request.scope_items = <<>>
    THEN empty_scope_result(scope_creep_indicators)
    ELSE rules_steps(request, clarification_indicators, revision_indicators,
                     <<>>, match)

\* lines 103-197: the empty-scope guard, then the steps
rules_decision(request, clarification_indicators, revision_indicators, scope_creep_indicators, match) ==
  IF request.scope_items = <<>>
    THEN empty_scope_result(scope_creep_indicators)
    ELSE rules_steps(request, clarification_indicators, revision_indicators,
                     scope_creep_indicators, match)

\* analyze_with_rules matching the scope items against the request's text
\* followed by its project_context
analyze_with_rules_reading_context(request) ==
  rules_decision(request,
    _find_phrases(request.request_content, CLARIFICATION_PHRASES),
    _find_phrases(request.request_content, REVISION_PHRASES),
    _find_phrases(request.request_content, SCOPE_CREEP_PHRASES),
    _find_best_scope_match(
      IF request.project_context = None
        THEN request.request_content
        ELSE request.request_content \o <<" ">> \o request.project_context[1],
      request.scope_items))

\* lines 80-197
analyze_with_rules(request) ==
  rules_decision(request,
    _find_phrases(request.request_content, CLARIFICATION_PHRASES),
    _find_phrases(request.request_content, REVISION_PHRASES),
    _find_phrases(request.request_content, SCOPE_CREEP_PHRASES),
    _find_best_scope_match(request.request_content, request.scope_items))

(***************************************************************************)
(* ai_analyzer.py                                                          *)
(***************************************************************************)

OPENAI_API_URL ==
  <<"h","t","t","p","s",":","/","/","a","p","i",".","o","p","e","n","a","i",".","c","o","m","/","v","1","/","c","h","a","t","/","c","o","m","p","l","e","t","i","o","n","s">>
NoScopeItemsDefined ==
  <<"(","N","o"," ","s","c","o","p","e"," ","i","t","e","m","s"," ","d","e","f","i","n","e","d",")">>

\* f"{i}. {item.title}" + (f" - {item.description}" if item.description else "")
scope_line(i, item) ==
  int_to_str(i) \o <<".", " ">> \o item.title
    \o (IF item.description # None /\ item.description[1] # <<>>
          THEN <<" ", "-", " ">> \o item.description[1] ELSE <<>>)

\* the sections the prompt's f-string is filled with
_build_user_prompt(request) ==
  LET scope_list ==
        str_join(<<"\n">>, [i \in DOMAIN request.scope_items |->
                              scope_line(i - 1, request.scope_items[i])])
  IN  [scope_list |-> IF scope_list = <<>> THEN NoScopeItemsDefined ELSE scope_list,
       request_content |-> request.request_content,
       project_context |->
         IF request.project_context # None /\ request.project_context[1] # <<>>
           THEN request.project_context ELSE None]

\* the POST that analyze_with_ai sends
ai_payload(request, api_key, model, timeout) ==
  [url |-> OPENAI_API_URL,
   authorization |-> api_key,
   model |-> model,
   timeout |-> timeout,
   user_prompt |-> _build_user_prompt(request)]

\* The classes an exception is an instance of (httpx, json, pydantic and the
\* builtins).
ExceptionBases(e) ==
  CASE e = "HTTPStatusError" -> {"HTTPStatusError", "HTTPError", "Exception"}
    [] e = "ConnectError" ->
         {"ConnectError", "TransportError", "RequestError", "HTTPError", "Exception"}
    [] e = "ReadTimeout" ->
         {"ReadTimeout", "TimeoutException", "TransportError", "RequestError",
          "HTTPError", "Exception"}
    [] e = "JSONDecodeError" -> {"JSONDecodeError", "ValueError", "Exception"}
    [] e = "ValidationError" -> {"ValidationError", "ValueError", "Exception"}
    [] e = "KeyError" -> {"KeyError", "LookupError", "Exception"}
    [] e = "IndexError" -> {"IndexError", "LookupError", "Exception"}
    [] OTHER -> {e, "Exception"}

\* A line of the provider's message: a code fence with its language tag, a
\* blank line, a line holding a complete JSON document, or other text.
IsBlankLine(line) == line.kind = "blank"

RECURSIVE drop_leading_blank(_)
drop_leading_blank(lines) ==
  IF lines # <<>> /\ IsBlankLine(Head(lines))
    THEN drop_leading_blank(Tail(lines)) ELSE lines
RECURSIVE drop_trailing_blank(_)
drop_trailing_blank(lines) ==
  IF lines # <<>> /\ IsBlankLine(lines[Len(lines)])
    THEN drop_trailing_blank(SubSeq(lines, 1, Len(lines) - 1)) ELSE lines

\* json.loads(text): whitespace around one JSON document is accepted
json_loads(lines) ==
  LET documents == SelectSeq(lines, LAMBDA l : ~IsBlankLine(l))
  IN  IF Len(documents) = 1 /\ documents[1].kind = "json"
        THEN Return(documents[1].value)
        ELSE Raise("JSONDecodeError")

_parse_ai_response(response_text) ==
  LET text == drop_trailing_blank(drop_leading_blank(response_text))
      \* text.startswith("```")
      fenced == text # <<>> /\ text[1].kind = "fence"
      lines1 == Tail(text)
      \* lines[-1].strip() == "```"
      lines2 == IF /\ lines1 # <<>>
                   /\ lines1[Len(lines1)].kind = "fence"
                   /\ lines1[Len(lines1)].lang = <<>>
                  THEN SubSeq(lines1, 1, Len(lines1) - 1)
                  ELSE lines1
  IN  json_loads(IF fenced THEN lines2 ELSE text)

\* the value of a string of decimal digits
RECURSIVE digits_value(_)
digits_value(t) ==
  IF t = <<>> THEN 0
  ELSE 10 * digits_value(SubSeq(t, 1, Len(t) - 1))
       + ((CHOOSE k \in DOMAIN DecimalDigits : DecimalDigits[k] = t[Len(t)]) - 1)

RECURSIVE power_of_ten(_)
power_of_ten(k) == IF k = 0 THEN 1 ELSE 10 * power_of_ten(k - 1)

IsDigits(t) == \A i \in DOMAIN t : \E k \in DOMAIN DecimalDigits : DecimalDigits[k] = t[i]

\* float() of digits "whole.fraction"
float_of_parts(whole, fraction) ==
  IF IsDigits(whole) /\ IsDigits(fraction) /\ Len(whole) + Len(fraction) > 0
    THEN Return(PyFloat(Frac(digits_value(whole \o fraction),
                             power_of_ten(Len(fraction)))))
    ELSE Raise("ValueError")

float_of_unsigned(body, dots) ==
  IF dots = {} THEN float_of_parts(body, <<>>)
  ELSE IF Cardinality(dots) = 1
    THEN float_of_parts(SubSeq(body, 1, (CHOOSE i \in dots : TRUE) - 1),
                        SubSeq(body, (CHOOSE i \in dots : TRUE) + 1, Len(body)))
  ELSE Raise("ValueError")

float_negated(outcome) ==
  IF outcome.kind = "raise" THEN outcome
  ELSE Return(PyFloat(Frac(-outcome.value.val.n, outcome.value.val.d)))

\* float(s) for a stripped string: of the string forms only plain decimals
\* ("0.5", "-1", "2.") are read as numbers
float_of_str(s) ==
  IF s # <<>> /\ s[1] = "-"
    THEN float_negated(float_of_unsigned(Tail(s), {i \in 1..(Len(s) - 1) : s[i + 1] = "."}))
    ELSE float_of_unsigned(s, {i \in DOMAIN s : s[i] = "."})

\* float(v) as analyze_with_ai applies it to parsed["confidence"]
python_float(v) ==
  CASE v.type = "float" -> Return(v)
    [] v.type = "int" -> Return(PyFloat(Frac(v.val, 1)))
    [] v.type = "str" -> float_of_str(str_strip(v.val))
    [] OTHER -> Raise("TypeError")

\* dict.get(key, default)
dict_get(d, key, default) == IF key \in DOMAIN d THEN d[key] ELSE default

\* result_with_confidence reading the reasoning with parsed.get("reasoning", "")
result_with_confidence_lenient(d, confidence) ==
  IF confidence.kind = "raise" THEN confidence
  ELSE IF "suggested_action" \notin DOMAIN d THEN Raise("KeyError")
  ELSE AnalysisResult(d["classification"], confidence.value,
         dict_get(d, "reasoning", PyStr(<<>>)),
         dict_get(d, "matched_scope_item_index", PyNone),
         PyNone,
         d["suggested_action"],
         dict_get(d, "scope_creep_indicators", PyList(<<>>)))

\* result_with_confidence with reasoning and suggested_action exchanged
result_with_confidence_exchanging_texts(d, confidence) ==
  IF confidence.kind = "raise" THEN confidence
  ELSE IF "reasoning" \notin DOMAIN d THEN Raise("KeyError")
  ELSE IF "suggested_action" \notin DOMAIN d THEN Raise("KeyError")
  ELSE AnalysisResult(d["classification"], confidence.value, d["suggested_action"],
         dict_get(d, "matched_scope_item_index", PyNone),
         PyNone,
         d["reasoning"],
         dict_get(d, "scope_creep_indicators", PyList(<<>>)))

\* lines 122-127: the rest of the arguments and the construction, once
\* float(parsed["confidence"]) has returned or raised
result_with_confidence(d, confidence) ==
  IF confidence.kind = "raise" THEN confidence
  ELSE IF "reasoning" \notin DOMAIN d THEN Raise("KeyError")
  ELSE IF "suggested_action" \notin DOMAIN d THEN Raise("KeyError")
  ELSE AnalysisResult(d["classification"], confidence.value, d["reasoning"],
         dict_get(d, "matched_scope_item_index", PyNone),
         PyNone,
         d["suggested_action"],
         dict_get(d, "scope_creep_indicators", PyList(<<>>)))

\* lines 119-127: the AnalysisResult built from the parsed answer; the
\* arguments are evaluated in the order they are written
result_from_parsed(parsed) ==
  IF parsed.type # "dict" THEN Raise("TypeError")
  ELSE IF "classification" \notin DOMAIN parsed.val THEN Raise("KeyError")
  ELSE IF "confidence" \notin DOMAIN parsed.val THEN Raise("KeyError")
  ELSE result_with_confidence(parsed.val, python_float(parsed.val["confidence"]))

\* lines 117-127 once _parse_ai_response has returned or raised
result_from_loads(loaded) ==
  IF loaded.kind = "raise" THEN loaded ELSE result_from_parsed(loaded.value)

\* lines 107-127: the try block once the provider call has ended with reply
ai_try_block(reply) ==
  IF reply.transport # "response" THEN Raise(reply.transport)
  \* response.raise_for_status()
  ELSE IF reply.status_code \notin 200..299 THEN Raise("HTTPStatusError")
  \* data = response.json()
  ELSE IF reply.data.shape = "not_json" THEN Raise("JSONDecodeError")
  \* content = data["choices"][0]["message"]["content"]
  ELSE IF reply.data.shape = "array" THEN Raise("TypeError")
  ELSE IF reply.data.shape = "no_choices" THEN Raise("KeyError")
  ELSE IF reply.data.shape = "empty_choices" THEN Raise("IndexError")
  \* parsed = _parse_ai_response(content): content.strip()
  ELSE IF reply.data.content.type # "str" THEN Raise("AttributeError")
  ELSE result_from_loads(_parse_ai_response(reply.data.content.val))

\* lines 129-143: the except clause that catches e, named by what it logs
ai_handler(e) ==
  IF "HTTPStatusError" \in ExceptionBases(e) THEN "OpenAI API error"
  ELSE IF "RequestError" \in ExceptionBases(e) THEN "Request error calling OpenAI"
  ELSE IF ExceptionBases(e) \cap {"JSONDecodeError", "KeyError", "ValueError"} # {}
    THEN "Failed to parse AI response"
  ELSE IF "Exception" \in ExceptionBases(e) THEN "Unexpected error in AI analysis"
  ELSE "unhandled"

\* ai_except with handlers that log and let the exception go on
ai_except_reraising(request, attempt) ==
  IF attempt.kind = "return" \/ ai_handler(attempt.exc) = "unhandled"
    THEN [outcome |-> attempt, log |-> <<>>]
    ELSE [outcome |-> attempt,
          log |-> <<[message |-> ai_handler(attempt.exc), exc |-> attempt.exc]>>]

\* lines 129-143: what analyze_with_ai returns or raises, and what it logs,
\* when the try block has ended with attempt
ai_except(request, attempt) ==
  IF attempt.kind = "return" \/ ai_handler(attempt.exc) = "unhandled"
    THEN [outcome |-> attempt, log |-> <<>>]
    ELSE [outcome |-> analyze_with_rules(request),
          log |-> <<[message |-> ai_handler(attempt.exc), exc |-> attempt.exc]>>]

\* analyze_with_ai from the end of the provider call
analyze_with_ai_complete(request, reply) == ai_except(request, ai_try_block(reply))

(***************************************************************************)
(* Bounds and inputs                                                       *)
(***************************************************************************)
\* longest scope_items list of a request
MaxItems == 2
\* number of callers of the entry points
NCalls == 2

Calls == 1..NCalls

Texts ==
  { <<"S","t","i","l","l"," ","w","o","r","k","i","n","g"," ","o","n"," ","t","h","e"," ","l","o","g","i","n"," ","p","a","g","e">>,
    <<"C","a","n"," ","y","o","u"," ","a","l","s","o"," ","b","u","i","l","d"," ","a"," ","m","o","b","i","l","e"," ","a","p","p","?">>,
    <<"C","a","n"," ","y","o","u"," ","e","x","p","l","a","i","n"," ","t","h","e","\t","l","o","g","i","n"," "," ","f","o","r","m","?">>,
    <<"A","c","t","u","a","l","l","y",","," ","C","H","A","N","G","E"," ","t","h","e"," ","l","o","g","i","n"," ","p","a","g","e">>,
    <<"O","h"," ","a","n","d"," ","a","l","s","o"," ","b","u","i","l","d"," ","l","o","g","i","n"," ","p","a","g","e">>,
    <<"B","u","i","l","d"," ","l","o","g","i","n"," ","p","a","g","e","2">> }

ScopeItems ==
  { [id |-> Some("uuid-1"), title |-> <<"B","u","i","l","d"," ","l","o","g","i","n"," ","p","a","g","e">>,
      description |-> None, order |-> 0],
    [id |-> None, title |-> <<"C","r","e","a","t","e"," ","c","o","n","t","a","c","t"," ","f","o","r","m">>,
      description |-> Some(<<"F","o","r","m"," ","w","i","t","h"," ","e","m","a","i","l">>), order |-> 1] }

ProjectContexts == {None, Some(<<"W","e","b"," ","s","h","o","p">>)}


RECURSIVE SeqsUpTo(_, _)
SeqsUpTo(S, n) ==
  IF n = 0 THEN {<<>>}
  ELSE LET shorter == SeqsUpTo(S, n - 1)
       IN  shorter \cup {Append(s, x) : s \in {t \in shorter : Len(t) = n - 1}, x \in S}

Requests ==
  [request_content : Texts,
   scope_items : SeqsUpTo(ScopeItems, MaxItems),
   project_context : ProjectContexts]

ApiKeys == {<<>>, <<"s","k","-","t","e","s","t">>}

OpenAIModels == {<<"g","p","t","-","4">>}


SettingsChoices ==
  [use_ai_analyzer : BOOLEAN, openai_api_key : ApiKeys, openai_model : OpenAIModels]

\* timeout: float = 30.0
DefaultTimeout == 30

GoodAnswer ==
  [classification |-> PyStr("in_scope"),
   confidence |-> PyFloat(Frac(9, 10)),
   reasoning |-> PyStr(<<"A","I"," ","s","a","y","s"," ","i","n"," ","s","c","o","p","e">>),
   matched_scope_item_index |-> PyInt(0),
   suggested_action |-> PyStr(<<"P","r","o","c","e","e","d">>),
   scope_creep_indicators |-> PyList(<<>>)]


AnswerFields == DOMAIN GoodAnswer
Without(d, key) == [k \in (DOMAIN d) \ {key} |-> d[k]]

FieldVariants ==
  [classification |-> {PyStr("out_of_scope"), PyStr("clarification_needed"), PyStr("revision"),
                       PyStr("maybe"), PyNone},
   confidence |-> {PyFloat(Frac(0, 1)), PyInt(1), PyFloat(Frac(3, 2)), PyFloat(Frac(-1, 10)),
                   PyStr(<<"h","i","g","h">>), PyStr(<<"0",".","5">>), PyNone},
   reasoning |-> {PyNone},
   matched_scope_item_index |-> {PyNone, PyInt(1), PyInt(5), PyInt(-1), PyStr(<<"f","i","r","s","t">>)},
   suggested_action |-> {PyInt(3)},
   scope_creep_indicators |-> {PyList(<<PyStr(<<"a","l","s","o">>)>>), PyNone}]


\* the JSON objects a provider may answer with: the expected one, and that
\* one with a single field missing or replaced
ProviderAnswers ==
  {GoodAnswer}
    \cup {Without(GoodAnswer, f) : f \in AnswerFields}
    \cup UNION {{[GoodAnswer EXCEPT ![f] = v] : v \in FieldVariants[f]} : f \in AnswerFields}

JsonLine(value) == [kind |-> "json", value |-> value]
FenceLine(lang) == [kind |-> "fence", lang |-> lang]
BlankLine == [kind |-> "blank"]
TextLine == [kind |-> "text"]
JsonObject(d) == [type |-> "dict", val |-> d]

\* the message contents a provider may send
ProviderContents ==
  {<<JsonLine(JsonObject(a))>> : a \in ProviderAnswers}
    \cup { <<FenceLine(<<"j","s","o","n">>), JsonLine(JsonObject(GoodAnswer)), FenceLine(<<>>)>>,
           <<BlankLine, FenceLine(<<>>), JsonLine(JsonObject(GoodAnswer)), FenceLine(<<>>), BlankLine>>,
           <<FenceLine(<<>>), JsonLine(JsonObject(GoodAnswer))>>,
           <<TextLine, JsonLine(JsonObject(GoodAnswer))>>,
           <<TextLine>>,
           <<>>,
           <<JsonLine(PyList(<<>>))>> }

Completion(content) == [shape |-> "completion", content |-> content]

\* every way the provider call can end
ProviderReplies ==
  {[transport |-> t] : t \in {"ConnectError", "ReadTimeout"}}
    \cup {[transport |-> "response", status_code |-> s, data |-> [shape |-> "not_json"]] :
            s \in {301, 429, 500}}
    \cup {[transport |-> "response", status_code |-> 200, data |-> [shape |-> s]] :
            s \in {"not_json", "array", "no_choices", "empty_choices"}}
    \cup {[transport |-> "response", status_code |-> 200, data |-> Completion(PyNone)]}
    \cup {[transport |-> "response", status_code |-> s, data |-> Completion(PyStr(c))] :
            s \in {200}, c \in ProviderContents}

\* analyze_with_ai from the provider's reply to its return, for each request
\* and reply of the model, as an explicit table (f @@ <<>> is f, enumerated)
analyze_with_ai_outcomes ==
  [request \in Requests |->
     [reply \in ProviderReplies |-> analyze_with_ai_complete(request, reply)] @@ <<>>]
  @@ <<>>

(***************************************************************************)
(* analyzer.py: the entry points and their callers                         *)
(***************************************************************************)
VARIABLES
  settings,   \* app.core.config.settings
  call,       \* per caller: where its call stands, its request, the POSTs
              \* sent, the provider's reply, what the call returned, the log
  project     \* the loaded Project: description, scope_items, client_requests

vars == <<settings, call, project>>

Idle ==
  [pc |-> "idle", entry |-> "none", request |-> None, sent |-> <<>>,
   reply |-> None, outcome |-> None, log |-> <<>>, client_request |-> None,
   only_pending |-> None, results |-> <<>>]

\* no project is loaded by the callers of the analyzer's own entry points
NoProject == [description |-> None, scope_items |-> <<>>, client_requests |-> <<>>]

Init ==
  /\ settings \in SettingsChoices
  /\ call = [c \in Calls |-> Idle]
  /\ project = NoProject

\* one caller at a time
Sequential(c) == \A d \in Calls \ {c} : call[d].pc = "idle"

\* the selection by the flag alone
use_ai_flag_only(config) == config.use_ai_analyzer

\* line 16: settings.use_ai_analyzer and settings.openai_api_key
use_ai(config) == config.use_ai_analyzer /\ config.openai_api_key # <<>>

\* analyze_scope up to its return, or up to the await of the provider call
analyze_scope(c, request) ==
  /\ call[c].pc = "idle"
  /\ IF use_ai(settings)
       THEN call' = [call EXCEPT ![c] =
              [Idle EXCEPT !.pc = "awaiting", !.entry = "analyze_scope",
                 !.request = Some(request),
                 !.sent = <<ai_payload(request, settings.openai_api_key,
                                       settings.openai_model, DefaultTimeout)>>]]
       ELSE call' = [call EXCEPT ![c] =
              [Idle EXCEPT !.pc = "returned", !.entry = "analyze_scope",
                 !.request = Some(request),
                 !.outcome = Some(analyze_with_rules(request))]]
  /\ UNCHANGED <<settings, project>>

analyze_scope_sync(c, request) ==
  /\ call[c].pc = "idle"
  /\ call' = [call EXCEPT ![c] =
       [Idle EXCEPT !.pc = "returned", !.entry = "analyze_scope_sync",
          !.request = Some(request),
          !.outcome = Some(analyze_with_rules(request))]]
  /\ UNCHANGED <<settings, project>>

\* returned_from_ai sending the request once more after a failure
returned_from_ai_retrying(record, reply, done) ==
  IF done.log # <<>> /\ Len(record.sent) < 2
    THEN [record EXCEPT !.sent = Append(@, @[1])]
    ELSE [record EXCEPT !.pc = "returned", !.reply = Some(reply),
                        !.outcome = Some(done.outcome), !.log = done.log]

\* the call record once analyze_with_ai has ended with done
returned_from_ai(record, reply, done) ==
  [record EXCEPT !.pc = "returned", !.reply = Some(reply),
                 !.outcome = Some(done.outcome), !.log = done.log]

\* provider_replies with the request kept where every call in flight finds
\* it: the handler resumes with the request of some call that is awaiting
provider_replies_shared_request(c, reply) ==
  /\ call[c].pc = "awaiting"
  /\ call' = [call EXCEPT ![c] =
       returned_from_ai(@, reply,
         analyze_with_ai_outcomes[
           call[CHOOSE d \in Calls : call[d].pc = "awaiting"].request[1]][reply])]
  /\ UNCHANGED <<settings, project>>

\* the provider call ends and analyze_with_ai runs to its return
provider_replies(c, reply) ==
  /\ call[c].pc = "awaiting"
  /\ call' = [call EXCEPT ![c] =
       returned_from_ai(@, reply, analyze_with_ai_outcomes[call[c].request[1]][reply])]
  /\ UNCHANGED <<settings, project>>

\* the caller has taken the result; its next call starts afresh
caller_continues(c) ==
  /\ call[c].pc = "returned"
  /\ call' = [call EXCEPT ![c] = Idle]
  /\ UNCHANGED <<settings, project>>

Next ==
  \E c \in Calls :
    \/ \E request \in Requests : Sequential(c) /\ analyze_scope(c, request)
    \/ \E request \in Requests : Sequential(c) /\ analyze_scope_sync(c, request)
    \/ \E reply \in ProviderReplies : provider_replies(c, reply)
    \/ caller_continues(c)

Spec == Init /\ [][Next]_vars

\* the provider call may always end: it responds, fails or times out
FairSpec ==
  Spec /\ WF_vars(\E c \in Calls : \E reply \in ProviderReplies : provider_replies(c, reply))

(***************************************************************************)
(* Properties                                                              *)
(***************************************************************************)
Returned(c) == call[c].pc = "returned"
\* the calls that went through analyze_with_ai and have returned
ReturnedFromAI(c) == Returned(c) /\ call[c].reply # None
\* the calls that were answered by analyze_with_rules alone
ReturnedFromRules(c) == Returned(c) /\ call[c].sent = <<>>
RequestOf(c) == call[c].request[1]
ReplyOf(c) == call[c].reply[1]
OutcomeOf(c) == call[c].outcome[1]
ReturnsRulesResult(c) ==
  OutcomeOf(c).kind = "return" /\ OutcomeOf(c) = analyze_with_rules(RequestOf(c))

\* connection error or timeout, or a response whose status is not 2xx
TransportFailure(reply) ==
  reply.transport # "response" \/ reply.status_code \notin 200..299

\* C1: when the provider call fails in transport (connection error, timeout
\* or non-2xx status), analyze_with_ai raises nothing and returns exactly
\* what analyze_with_rules returns for the same request.
C1_TransportFailureFallsBack ==
  \A c \in Calls :
    ReturnedFromAI(c) /\ TransportFailure(ReplyOf(c)) => ReturnsRulesResult(c)

C1_Witness ==
  \E c \in Calls :
    /\ ReturnedFromAI(c)
    /\ ReplyOf(c).transport = "response"
    /\ ReplyOf(c).status_code = 500
    /\ RequestOf(c).scope_items # <<>>

\* a 2xx response that carries a message content
HasContent(reply) ==
  /\ reply.transport = "response"
  /\ reply.status_code \in 200..299
  /\ reply.data.shape = "completion"
  /\ reply.data.content.type = "str"
\* the content parses to a JSON object
HasObject(reply) ==
  /\ HasContent(reply)
  /\ _parse_ai_response(reply.data.content.val).kind = "return"
  /\ _parse_ai_response(reply.data.content.val).value.type = "dict"
ObjectOf(reply) == _parse_ai_response(reply.data.content.val).value.val

ConfidenceOutOfRange(d) ==
  /\ "confidence" \in DOMAIN d
  /\ d["confidence"].type \in {"float", "int"}
  /\ LET x == python_float(d["confidence"]).value.val
     IN  FLess(x, Frac(0, 1)) \/ FLess(Frac(1, 1), x)
ClassificationNotAllowed(d) ==
  /\ "classification" \in DOMAIN d
  /\ d["classification"].type = "str"
  /\ d["classification"].val \notin ScopeClassificationType

\* a success status with a body that cannot be used
UnusableBody(reply) ==
  \/ HasContent(reply) /\ _parse_ai_response(reply.data.content.val).kind = "raise"
  \/ HasObject(reply) /\ ConfidenceOutOfRange(ObjectOf(reply))
  \/ HasObject(reply) /\ ClassificationNotAllowed(ObjectOf(reply))

\* C2: when the provider answers with a success status but a content that
\* is not valid JSON, a confidence outside [0, 1] or a classification outside
\* the four allowed values, analyze_with_ai raises nothing and returns the
\* rule-based result for the same request.
C2_UnusableBodyFallsBack ==
  \A c \in Calls :
    ReturnedFromAI(c) /\ UnusableBody(ReplyOf(c)) => ReturnsRulesResult(c)

C2_Witness ==
  \E c \in Calls :
    /\ ReturnedFromAI(c)
    /\ HasObject(ReplyOf(c))
    /\ ConfidenceOutOfRange(ObjectOf(ReplyOf(c)))
    /\ OutcomeOf(c).kind = "return"

SchemaFields ==
  {"classification", "confidence", "reasoning", "matched_scope_item_index",
   "suggested_action", "scope_creep_indicators"}
\* the fields analyze_with_ai reads with parsed[...]
RequiredFields == {"classification", "confidence", "reasoning", "suggested_action"}
\* the fields analyze_with_ai reads with parsed.get(...)
OptionalFields == {"matched_scope_item_index", "scope_creep_indicators"}

\* the result analyze_with_ai builds from an accepted answer d
BuiltFrom(d) ==
  [classification |-> d["classification"].val,
   confidence |-> python_float(d["confidence"]).value.val,
   reasoning |-> d["reasoning"].val,
   matched_scope_item_index |->
     IF "matched_scope_item_index" \in DOMAIN d
          /\ d["matched_scope_item_index"].type = "int"
       THEN Some(d["matched_scope_item_index"].val) ELSE None,
   matched_scope_item_id |-> None,
   suggested_action |-> d["suggested_action"].val,
   scope_creep_indicators |->
     IF "scope_creep_indicators" \in DOMAIN d
       THEN [i \in DOMAIN d["scope_creep_indicators"].val |->
               d["scope_creep_indicators"].val[i].val]
       ELSE <<>>]

\* C3 as stated: when the parsed object lacks any one of the six schema
\* fields, analyze_with_ai returns the rule-based result for the request.
C3_AnyMissingFieldFallsBack ==
  \A c \in Calls :
    (/\ ReturnedFromAI(c)
     /\ HasObject(ReplyOf(c))
     /\ SchemaFields \ DOMAIN ObjectOf(ReplyOf(c)) # {})
      => ReturnsRulesResult(c)

\* C3 amended: when the parsed object lacks classification, confidence,
\* reasoning or suggested_action, analyze_with_ai returns the rule-based
\* result; when it lacks only matched_scope_item_index or
\* scope_creep_indicators, the result is built from the provider's answer,
\* with no matched index or an empty indicator list in the missing field's
\* place.
C3_RequiredMissingFallsBack ==
  \A c \in Calls :
    ReturnedFromAI(c) /\ HasObject(ReplyOf(c)) =>
      LET d == ObjectOf(ReplyOf(c)) IN
        /\ RequiredFields \ DOMAIN d # {} => ReturnsRulesResult(c)
        /\ (/\ DOMAIN d = SchemaFields \ {"matched_scope_item_index"}
              \/ DOMAIN d = SchemaFields \ {"scope_creep_indicators"}
            /\ \A f \in DOMAIN d : d[f] = GoodAnswer[f])
             => OutcomeOf(c) = Return(BuiltFrom(d))

C3_Witness ==
  \E c \in Calls :
    /\ ReturnedFromAI(c)
    /\ HasObject(ReplyOf(c))
    /\ DOMAIN ObjectOf(ReplyOf(c)) = SchemaFields \ {"reasoning"}
    /\ RequestOf(c).scope_items # <<>>

\* C4 as stated: in every result that analyze_scope returns, under either
\* strategy and for any provider answer, a matched_scope_item_index that is
\* present is a valid index into the request's scope_items.
C4_MatchedIndexInRange ==
  \A c \in Calls :
    (/\ Returned(c)
     /\ call[c].entry = "analyze_scope"
     /\ OutcomeOf(c).kind = "return"
     /\ OutcomeOf(c).value.matched_scope_item_index # None)
      => /\ 0 <= OutcomeOf(c).value.matched_scope_item_index[1]
         /\ OutcomeOf(c).value.matched_scope_item_index[1]
              < Len(RequestOf(c).scope_items)

\* C5: every result returned by the entry points, by analyze_with_rules or
\* by analyze_with_ai has one of the four classifications and a confidence
\* between 0.0 and 1.0.
C5_ClassificationAndConfidenceValid ==
  \A c \in Calls :
    Returned(c) =>
      /\ OutcomeOf(c).kind = "return"
      /\ OutcomeOf(c).value.classification \in ScopeClassificationType
      /\ FLeq(Frac(0, 1), OutcomeOf(c).value.confidence)
      /\ FLeq(OutcomeOf(c).value.confidence, Frac(1, 1))

\* a result built from the provider's answer, not from the rules
C5_Witness ==
  \E c \in Calls :
    /\ ReturnedFromAI(c)
    /\ call[c].log = <<>>
    /\ OutcomeOf(c).kind = "return"
    /\ OutcomeOf(c).value.classification = "revision"

NoScope ==
  <<"n","o"," ","s","c","o","p","e">>

\* C6: with empty scope_items, whatever clarification, revision or
\* scope-creep phrases the text contains, analyze_with_rules returns
\* out_of_scope with confidence 0.9, a reasoning that contains "no scope"
\* (case-insensitive), and neither a matched index nor a matched id.
C6_EmptyScopeRules ==
  \A c \in Calls :
    ReturnedFromRules(c) /\ RequestOf(c).scope_items = <<>> =>
      /\ OutcomeOf(c).kind = "return"
      /\ OutcomeOf(c).value.classification = "out_of_scope"
      /\ OutcomeOf(c).value.confidence = Frac(9, 10)
      /\ str_contains(str_lower(OutcomeOf(c).value.reasoning), NoScope)
      /\ OutcomeOf(c).value.matched_scope_item_index = None
      /\ OutcomeOf(c).value.matched_scope_item_id = None

C6_Witness ==
  \E c \in Calls :
    /\ ReturnedFromRules(c)
    /\ RequestOf(c).scope_items = <<>>
    /\ _find_phrases(RequestOf(c).request_content, CLARIFICATION_PHRASES) # <<>>

\* C7 as stated: for a request with empty scope_items, analyze_scope returns
\* out_of_scope with confidence 0.9 whichever strategy the configuration
\* selects and whatever the provider answers.
C7_EmptyScopeAnyStrategy ==
  \A c \in Calls :
    (/\ Returned(c)
     /\ call[c].entry = "analyze_scope"
     /\ RequestOf(c).scope_items = <<>>)
      => /\ OutcomeOf(c).kind = "return"
         /\ OutcomeOf(c).value.classification = "out_of_scope"
         /\ OutcomeOf(c).value.confidence = Frac(9, 10)

\* C8: analyze_scope delegates to the advanced strategy, and so contacts
\* the provider, exactly when use_ai_analyzer is true and openai_api_key is
\* non-empty; in every other configuration, and always for
\* analyze_scope_sync, the result is that of analyze_with_rules, no provider
\* request is made and nothing is raised.
C8_StrategySelection ==
  \A c \in Calls :
    /\ call[c].entry = "analyze_scope" =>
         /\ call[c].sent # <<>>
              <=> (settings.use_ai_analyzer /\ settings.openai_api_key # <<>>)
         /\ call[c].sent = <<>> => Returned(c) /\ ReturnsRulesResult(c)
    /\ call[c].entry = "analyze_scope_sync" =>
         call[c].sent = <<>> /\ Returned(c) /\ ReturnsRulesResult(c)

C8_Witness ==
  \E c \in Calls :
    /\ Returned(c)
    /\ call[c].entry = "analyze_scope"
    /\ settings.use_ai_analyzer
    /\ settings.openai_api_key = <<>>
    /\ RequestOf(c).scope_items # <<>>

\* the values the items' order fields are varied over
OrderValues == {0, 9}
\* the requests that agree with request on the text and on the titles,
\* descriptions and ids of the items, in order
SameRuleInputs(request) ==
  {[request EXCEPT
      !.project_context = context,
      !.scope_items = [i \in DOMAIN request.scope_items |->
                         [request.scope_items[i] EXCEPT !.order = order[i]]]] :
     context \in ProjectContexts,
     order \in [DOMAIN request.scope_items -> OrderValues]}

\* C9: analyze_with_rules depends on request_content and on the ordered
\* titles, descriptions and ids of scope_items only: a request that agrees
\* on these gets the identical result, whatever its project_context and its
\* items' order fields are and whatever calls were made before.
C9_RulesDependOnTextAndItemsOnly ==
  \A c \in Calls :
    ReturnedFromRules(c) =>
      \A other \in SameRuleInputs(RequestOf(c)) :
        analyze_with_rules(other) = OutcomeOf(c)

C9_Witness ==
  \E c \in Calls :
    /\ ReturnedFromRules(c)
    /\ Len(RequestOf(c).scope_items) = MaxItems
    /\ RequestOf(c).project_context # None
    /\ OutcomeOf(c).kind = "return"
    /\ OutcomeOf(c).value.matched_scope_item_index = Some(1)

\* C10: provided the provider call responds, fails or times out, every
\* analyze_scope call that awaits the provider returns a result; it sends a
\* single request, with the bounded timeout, and a failure or timeout leads
\* to its return without a second request.
C10_ReturnsAfterOneRequest ==
  \A c \in Calls :
    /\ [](/\ Len(call[c].sent) <= 1
          /\ \A i \in DOMAIN call[c].sent : call[c].sent[i].timeout = DefaultTimeout)
    /\ (call[c].pc = "awaiting")
         ~> (Returned(c) /\ OutcomeOf(c).kind = "return" /\ Len(call[c].sent) = 1)

C10_Witness ==
  \E c \in Calls :
    /\ ReturnedFromAI(c)
    /\ ReplyOf(c).transport = "ReadTimeout"
    /\ OutcomeOf(c).kind = "return"
    /\ Len(call[c].sent) = 1

(***************************************************************************)
(* Concurrent calls of analyze_scope                                       *)
(***************************************************************************)
\* the requests and the provider outcomes of the concurrent callers
ConcurrentRequests ==
  {request \in Requests :
     /\ request.project_context = None
     /\ Len(request.scope_items) = 1
     /\ request.scope_items[1].id # None
     /\ request.request_content[1] \in {"S", "C", "B"}
     /\ request.request_content[Len(request.request_content)] # "?"}

ConcurrentReplies ==
  {reply \in ProviderReplies :
     \/ reply.transport = "ReadTimeout"
     \/ reply.transport = "response" /\ reply.status_code = 500
     \/ reply = [transport |-> "response", status_code |-> 200,
                 data |-> Completion(PyStr(<<JsonLine(JsonObject(GoodAnswer))>>))]}

\* the event loop runs the callers' coroutines interleaved at their awaits:
\* a call may start, and a provider call may end, while others are in flight
ConcurrentNext ==
  \E c \in Calls :
    \/ \E request \in ConcurrentRequests : analyze_scope(c, request)
    \/ \E request \in ConcurrentRequests : analyze_scope_sync(c, request)
    \/ \E reply \in ConcurrentReplies : provider_replies(c, reply)
    \/ caller_continues(c)

ConcurrentSpec == Init /\ [][ConcurrentNext]_vars

\* what the call of entry returns when it runs alone
AloneOutcome(entry, config, request, reply) ==
  IF entry = "analyze_scope" /\ use_ai(config)
    THEN analyze_with_ai_complete(request, reply[1]).outcome
    ELSE analyze_with_rules(request)

\* C11: when analyze_scope calls run concurrently and their provider
\* responses, failures and timeouts interleave in any order, each call that
\* has returned holds the result it returns when run alone with the same
\* request, configuration and provider outcome, it has sent the one payload
\* of its own request, and no step of one call changes what belongs to
\* another call or the configuration.
C11_ConcurrentCallsIndependent ==
  /\ [](\A c \in Calls :
          /\ Returned(c) =>
               OutcomeOf(c) = AloneOutcome(call[c].entry, settings, RequestOf(c), call[c].reply)
          /\ \A i \in DOMAIN call[c].sent :
               call[c].sent[i] = ai_payload(RequestOf(c), settings.openai_api_key,
                                            settings.openai_model, DefaultTimeout))
  /\ [][/\ settings' = settings
        /\ \E c \in Calls : \A d \in Calls \ {c} : call'[d] = call[d]]_vars

C11_Witness ==
  \E c, d \in Calls :
    /\ ReturnedFromAI(c)
    /\ ReplyOf(c).transport = "ReadTimeout"
    /\ call[d].pc = "awaiting"
    /\ RequestOf(d) # RequestOf(c)


(***************************************************************************)
(* The rule-based analyzer on requests at its thresholds                   *)
(***************************************************************************)
\* request texts: similarities at, below and above 0.1, 0.15, 0.3 and 0.4
\* to the scope items below, with and without indicator phrases
RuleTexts ==
  { <<"a">>,
    <<"a"," ","b"," ","c"," ","k"," ","l"," ","m"," ","n"," ","o"," ","p"," ","q"," ","r"," ","s"," ","t">>,
    <<"a"," ","b">>,
    <<"a"," ","b"," ","c">>,
    <<"a"," ","b"," ","c"," ","d">>,
    <<"a"," ","b"," ","c"," ","d"," ","e"," ","f"," ","g"," ","h"," ","i"," ","k">>,
    <<"A"," "," ","B","\t","c"," ","d"," ","e"," ","f"," ","g"," ","h"," ","i"," ","j">>,
    <<"k"," ","l">>,
    <<"a"," ","b"," ","c"," ","d"," ","e"," ","f"," ","g"," ","h"," ","i"," ","k"," ","l">>,
    <<"a"," ","b"," ","c"," ","k"," ","l"," ","m"," ","n"," ","o"," ","p"," ","q">>,
    <<"c","l","a","r","i","f","y"," ","a">>,
    <<"c","l","a","r","i","f","y"," ","k">>,
    <<"c","l","a","r","i","f","y"," ","a"," ","b"," ","c"," ","d"," ","e"," ","f"," ","g"," ","h"," ","i"," ","j"," ","a","l","s","o"," ","c","h","a","n","g","e">>,
    <<"c","l","a","r","i","f","y"," ","a"," ","k"," ","l">>,
    <<"c","h","a","n","g","e"," ","a"," ","b"," ","c"," ","k"," ","l"," ","m"," ","n"," ","o"," ","p"," ","q"," ","r"," ","s">>,
    <<"c","h","a","n","g","e"," ","a"," ","b">>,
    <<"c","h","a","n","g","e"," ","a"," ","b"," ","c">>,
    <<"c","h","a","n","g","e"," ","a"," ","b"," ","c"," ","d"," ","e"," ","f"," ","g"," ","h"," ","i">>,
    <<"t","w","e","a","k"," ","a","l","s","o"," ","a"," ","b"," ","c"," ","d"," ","e">>,
    <<"c","h","a","n","g","e"," ","k">>,
    <<"c","h","a","n","g","e"," ","a"," ","b"," ","c"," ","d"," ","e"," ","f"," ","g"," ","h"," ","i"," ","j"," ","k"," ","l"," ","m"," ","n"," ","o"," ","p"," ","q"," ","r"," ","s">>,
    <<"a","l","s","o"," ","a"," ","b"," ","c"," ","d">>,
    <<"a","l","s","o"," ","a"," ","b"," ","c"," ","d"," ","e">>,
    <<"a","l","s","o"," ","a"," ","b"," ","c"," ","d"," ","e"," ","f"," ","g"," ","h"," ","i"," ","j">>,
    <<"a","l","s","o"," ","k">>,
    <<"o","h"," ","a","n","d"," ","a","l","s","o"," ","a"," ","b"," ","c"," ","d"," ","e"," ","f"," ","g"," ","h"," ","i"," ","j">>,
    <<"o","h"," ","a","n","d"," ","a","l","s","o"," ","r","e","a","l"," ","q","u","i","c","k"," ","b","y"," ","t","h","e"," ","w","a","y"," ","k">>,
    <<"o","h"," ","a","n","d"," ","a","l","s","o"," ","r","e","a","l"," ","q","u","i","c","k"," ","b","y"," ","t","h","e"," ","w","a","y"," ","j","u","s","t"," ","a","d","d"," ","k">>,
    <<"c","a","n"," ","y","o","u"," ","a","l","s","o"," ","a"," ","b"," ","c"," ","d"," ","e"," ","f"," ","g"," ","h"," ","i"," ","j"," ","r","e","a","l"," ","q","u","i","c","k">>,
    <<"s","m","a","l","l"," ","t","w","e","a","k"," ","a">>,
    <<"c","l","a","r","i","f","y"," ","a"," ","b">>,
    <<"o","h"," ","a","n","d"," ","a","l","s","o"," ","r","e","a","l"," ","q","u","i","c","k"," ","b","y"," ","t","h","e"," ","w","a","y"," ","j","u","s","t"," ","a","d","d"," ","t","i","n","y"," ","f","a","v","o","r"," ","k">>,
    <<"a"," ","b"," ","c"," ","d"," ","e"," ","f"," ","g"," ","h"," ","i"," ","j"," ","k"," ","l"," ","m"," ","n"," ","o"," ","p"," ","q"," ","r"," ","s"," ","t">> }

\* scope_items lists: one item, a best match after a non-matching item, two
\* items of equal similarity, items sharing no word with the texts, a best
\* match before and after a weaker one, and no item
RuleScopeItems ==
  { <<[id |-> Some("uuid-1"), title |-> <<"a"," ","b"," ","c"," ","d"," ","e"," ","f"," ","g"," ","h"," ","i"," ","j">>,
        description |-> None, order |-> 0]>>,
    <<[id |-> None, title |-> <<"z","z">>,
        description |-> None, order |-> 0],
      [id |-> Some("uuid-2"), title |-> <<"a"," ","b"," ","c"," ","d"," ","e"," ","f"," ","g"," ","h">>,
        description |-> Some(<<"i">>), order |-> 1]>>,
    <<[id |-> Some("uuid-1"), title |-> <<"a"," ","b">>,
        description |-> None, order |-> 0],
      [id |-> Some("uuid-2"), title |-> <<"b"," ","a">>,
        description |-> Some(<<>>), order |-> 1]>>,
    <<[id |-> Some("uuid-1"), title |-> <<"x","x"," ","y","y">>,
        description |-> None, order |-> 0],
      [id |-> Some("uuid-2"), title |-> <<"y","y">>,
        description |-> Some(<<"w","w">>), order |-> 1]>>,
    <<[id |-> Some("uuid-1"), title |-> <<"a"," ","b"," ","c"," ","d">>,
        description |-> None, order |-> 0],
      [id |-> None, title |-> <<"a"," ","b">>,
        description |-> None, order |-> 1]>>,
    <<>> }

RuleRequests ==
  [request_content : RuleTexts, scope_items : RuleScopeItems, project_context : {None}]

\* callers of the rules-only entry point
RulesNext ==
  \E c \in Calls :
    \/ \E request \in RuleRequests : Sequential(c) /\ analyze_scope_sync(c, request)
    \/ caller_continues(c)

RulesSpec == Init /\ [][RulesNext]_vars

\* some phrase of the lexicon occurs in the normalized text
HasPhrase(text, lexicon) ==
  \E i \in DOMAIN lexicon : str_contains(_normalize_text(text), lexicon[i])
\* the number of phrases of the lexicon that occur in the normalized text
PhraseCount(text, lexicon) ==
  Cardinality({i \in DOMAIN lexicon : str_contains(_normalize_text(text), lexicon[i])})
\* the similarity of the request's text to each of its scope items
Similarities(request) ==
  [i \in DOMAIN request.scope_items |->
     _calculate_word_overlap(request.request_content, scope_text(request.scope_items[i]))]
GreatestOf(sims) ==
  CHOOSE s \in {sims[i] : i \in DOMAIN sims} : \A i \in DOMAIN sims : FLeq(sims[i], s)
\* the best similarity, 0 without scope items
BestSimilarity(request) ==
  IF request.scope_items = <<>> THEN Frac(0, 1) ELSE GreatestOf(Similarities(request))
\* the first position (from 1) of the similarity best
FirstAt(sims, best) ==
  CHOOSE i \in DOMAIN sims : sims[i] = best /\ \A j \in 1..(i - 1) : sims[j] # best
ReportsMatch(result, request, i) ==
  /\ result.matched_scope_item_index = Some(i - 1)
  /\ result.matched_scope_item_id = request.scope_items[i].id
\* the result reports the first item of greatest similarity, with its id
ReportsBestMatch(result, request) ==
  ReportsMatch(result, request, FirstAt(Similarities(request), BestSimilarity(request)))
ReportsNoMatch(result) ==
  result.matched_scope_item_index = None /\ result.matched_scope_item_id = None
\* the call went through analyze_with_rules alone and returned a result
RulesResult(c) == ReturnedFromRules(c) /\ OutcomeOf(c).kind = "return"
ResultOf(c) == OutcomeOf(c).value
TextOf(c) == RequestOf(c).request_content

\* C12: with non-empty scope_items, a text containing a clarification phrase
\* gets clarification_needed with confidence 0.85 whatever revision or
\* scope-creep phrases it contains and whatever the similarity; the best
\* match's index and id are reported exactly when the best similarity is
\* strictly greater than 0.1, and no match otherwise.
C12_ClarificationFirst ==
  \A c \in Calls :
    (/\ ReturnedFromRules(c)
     /\ RequestOf(c).scope_items # <<>>
     /\ HasPhrase(TextOf(c), CLARIFICATION_PHRASES))
      => /\ OutcomeOf(c).kind = "return"
         /\ ResultOf(c).classification = "clarification_needed"
         /\ ResultOf(c).confidence = Frac(85, 100)
         /\ IF FLess(Frac(1, 10), BestSimilarity(RequestOf(c)))
              THEN ReportsBestMatch(ResultOf(c), RequestOf(c))
              ELSE ReportsNoMatch(ResultOf(c))

\* a clarification phrase beside a revision and a scope-creep phrase, with a
\* match reported
C12_Witness ==
  \E c \in Calls :
    /\ RulesResult(c)
    /\ HasPhrase(TextOf(c), CLARIFICATION_PHRASES)
    /\ HasPhrase(TextOf(c), REVISION_PHRASES)
    /\ HasPhrase(TextOf(c), SCOPE_CREEP_PHRASES)
    /\ ResultOf(c).classification = "clarification_needed"
    /\ ResultOf(c).matched_scope_item_index = Some(1)

\* a clarification phrase at similarity exactly 0.1: no match reported
C12_WitnessAtThreshold ==
  \E c \in Calls :
    /\ RulesResult(c)
    /\ HasPhrase(TextOf(c), CLARIFICATION_PHRASES)
    /\ BestSimilarity(RequestOf(c)) = Frac(1, 10)
    /\ ResultOf(c).matched_scope_item_index = None

\* C13: with non-empty scope_items and no clarification phrase, a text with a
\* revision phrase and a best similarity strictly greater than 0.15 gets
\* revision with confidence min(0.8, 0.5 + similarity) and the best match's
\* index and id, also when scope-creep phrases are present; at similarity
\* 0.15 or below the result is not revision.
C13_RevisionWithMatch ==
  \A c \in Calls :
    (/\ ReturnedFromRules(c)
     /\ RequestOf(c).scope_items # <<>>
     /\ ~HasPhrase(TextOf(c), CLARIFICATION_PHRASES)
     /\ HasPhrase(TextOf(c), REVISION_PHRASES))
      => /\ OutcomeOf(c).kind = "return"
         /\ IF FLess(Frac(15, 100), BestSimilarity(RequestOf(c)))
              THEN /\ ResultOf(c).classification = "revision"
                   /\ ResultOf(c).confidence =
                        FMin(Frac(8, 10), FAdd(Frac(1, 2), BestSimilarity(RequestOf(c))))
                   /\ ReportsBestMatch(ResultOf(c), RequestOf(c))
              ELSE ResultOf(c).classification # "revision"

\* a revision phrase beside a scope-creep phrase, below the cap of 0.8
C13_Witness ==
  \E c \in Calls :
    /\ RulesResult(c)
    /\ HasPhrase(TextOf(c), REVISION_PHRASES)
    /\ HasPhrase(TextOf(c), SCOPE_CREEP_PHRASES)
    /\ ResultOf(c).classification = "revision"
    /\ FLess(ResultOf(c).confidence, Frac(8, 10))

\* a revision phrase at similarity exactly 0.15: not a revision
C13_WitnessAtThreshold ==
  \E c \in Calls :
    /\ RulesResult(c)
    /\ HasPhrase(TextOf(c), REVISION_PHRASES)
    /\ BestSimilarity(RequestOf(c)) = Frac(15, 100)
    /\ ResultOf(c).classification = "out_of_scope"

\* the revision branch fires: a revision phrase and a similarity above 0.15
RevisionFires(request) ==
  /\ HasPhrase(request.request_content, REVISION_PHRASES)
  /\ FLess(Frac(15, 100), BestSimilarity(request))
\* the values of max(0.5, 0.7 - 0.1 * n) and of min(0.95, 0.7 + 0.05 * n)
CreepInScopeConfidence(n) == IF n = 1 THEN Frac(6, 10) ELSE Frac(5, 10)
CreepOutOfScopeConfidence(n) == IF n >= 5 THEN Frac(95, 100) ELSE Frac(14 + n, 20)

\* C14: with non-empty scope_items, no clarification phrase and the revision
\* branch not firing, a text with n >= 1 scope-creep phrases gets in_scope
\* with confidence max(0.5, 0.7 - 0.1 * n) and the best match when the best
\* similarity is strictly greater than 0.4, and otherwise (similarity 0.4
\* included) out_of_scope with confidence min(0.95, 0.7 + 0.05 * n) and no
\* match.
C14_ScopeCreepBranch ==
  \A c \in Calls :
    (/\ ReturnedFromRules(c)
     /\ RequestOf(c).scope_items # <<>>
     /\ ~HasPhrase(TextOf(c), CLARIFICATION_PHRASES)
     /\ ~RevisionFires(RequestOf(c))
     /\ PhraseCount(TextOf(c), SCOPE_CREEP_PHRASES) >= 1)
      => /\ OutcomeOf(c).kind = "return"
         /\ IF FLess(Frac(4, 10), BestSimilarity(RequestOf(c)))
              THEN /\ ResultOf(c).classification = "in_scope"
                   /\ ResultOf(c).confidence =
                        CreepInScopeConfidence(PhraseCount(TextOf(c), SCOPE_CREEP_PHRASES))
                   /\ ReportsBestMatch(ResultOf(c), RequestOf(c))
              ELSE /\ ResultOf(c).classification = "out_of_scope"
                   /\ ResultOf(c).confidence =
                        CreepOutOfScopeConfidence(PhraseCount(TextOf(c), SCOPE_CREEP_PHRASES))
                   /\ ReportsNoMatch(ResultOf(c))

\* three scope-creep phrases on a strong match: in_scope at the floor 0.5
C14_Witness ==
  \E c \in Calls :
    /\ RulesResult(c)
    /\ PhraseCount(TextOf(c), SCOPE_CREEP_PHRASES) = 3
    /\ FLess(Frac(4, 10), BestSimilarity(RequestOf(c)))
    /\ ResultOf(c).classification = "in_scope"
    /\ ResultOf(c).confidence = Frac(5, 10)

\* a scope-creep phrase at similarity exactly 0.4: out_of_scope
C14_WitnessAtThreshold ==
  \E c \in Calls :
    /\ RulesResult(c)
    /\ PhraseCount(TextOf(c), SCOPE_CREEP_PHRASES) = 1
    /\ BestSimilarity(RequestOf(c)) = Frac(4, 10)
    /\ ResultOf(c).classification = "out_of_scope"

\* six scope-creep phrases without a match: out_of_scope at the cap 0.95
C14_WitnessAtCap ==
  \E c \in Calls :
    /\ RulesResult(c)
    /\ PhraseCount(TextOf(c), SCOPE_CREEP_PHRASES) >= 6
    /\ ResultOf(c).classification = "out_of_scope"
    /\ ResultOf(c).confidence = Frac(95, 100)

\* analyze_with_rules reaches the fuzzy-match fallback: scope items, no
\* clarification phrase, the revision branch not firing, no scope-creep phrase
ReachesFuzzyMatch(request) ==
  /\ request.scope_items # <<>>
  /\ ~HasPhrase(request.request_content, CLARIFICATION_PHRASES)
  /\ ~RevisionFires(request)
  /\ ~HasPhrase(request.request_content, SCOPE_CREEP_PHRASES)
\* the sum 0.5 + similarity, at most 0.95
FuzzyConfidence(similarity) ==
  IF similarity.n * 20 > 9 * similarity.d
    THEN Frac(95, 100)
    ELSE Frac(similarity.d + 2 * similarity.n, 2 * similarity.d)

\* C15: in the fuzzy-match fallback a best similarity strictly greater than
\* 0.3 gives in_scope with confidence min(0.95, 0.5 + similarity) and the
\* match; a similarity above 0.15 and at most 0.3 gives in_scope with
\* confidence 0.5 + similarity and the match; a similarity of 0.15 or less
\* gives out_of_scope with confidence 0.6 and no match.
C15_FuzzyMatchThresholds ==
  \A c \in Calls :
    ReturnedFromRules(c) /\ ReachesFuzzyMatch(RequestOf(c))
      => /\ OutcomeOf(c).kind = "return"
         /\ IF FLess(Frac(15, 100), BestSimilarity(RequestOf(c)))
              THEN /\ ResultOf(c).classification = "in_scope"
                   /\ ResultOf(c).confidence = FuzzyConfidence(BestSimilarity(RequestOf(c)))
                   /\ ReportsBestMatch(ResultOf(c), RequestOf(c))
              ELSE /\ ResultOf(c).classification = "out_of_scope"
                   /\ ResultOf(c).confidence = Frac(6, 10)
                   /\ ReportsNoMatch(ResultOf(c))

\* similarity exactly 0.3: the partial match, confidence 0.8
C15_Witness ==
  \E c \in Calls :
    /\ RulesResult(c)
    /\ ReachesFuzzyMatch(RequestOf(c))
    /\ BestSimilarity(RequestOf(c)) = Frac(3, 10)
    /\ ResultOf(c).classification = "in_scope"
    /\ ResultOf(c).confidence = Frac(8, 10)

\* similarity exactly 0.15: the default
C15_WitnessAtLowThreshold ==
  \E c \in Calls :
    /\ RulesResult(c)
    /\ ReachesFuzzyMatch(RequestOf(c))
    /\ BestSimilarity(RequestOf(c)) = Frac(15, 100)
    /\ ResultOf(c).classification = "out_of_scope"

\* similarity 0.45 and similarity 1: confidence 0.95
C15_WitnessAtCap ==
  \E c \in Calls :
    /\ RulesResult(c)
    /\ ReachesFuzzyMatch(RequestOf(c))
    /\ BestSimilarity(RequestOf(c)) \in {Frac(9, 20), Frac(1, 1)}
    /\ ResultOf(c).confidence = Frac(95, 100)

StartsWith(text, prefix) ==
  Len(text) >= Len(prefix) /\ SubSeq(text, 1, Len(prefix)) = prefix
\* the result carries the reasoning of step 4 or of the default of step 5
DecidedByFuzzyMatch(result) ==
  \/ StartsWith(result.reasoning, ReasonMatches)
  \/ StartsWith(result.reasoning, ReasonPartial)
  \/ result.reasoning = ReasonNoMatch

\* C16 as stated: whenever analyze_with_rules decides a request by the
\* fuzzy-match fallback, no clarification, revision or scope-creep phrase was
\* detected in the request text.
C16_FuzzyMatchWithoutPhrases ==
  \A c \in Calls :
    RulesResult(c) /\ DecidedByFuzzyMatch(ResultOf(c))
      => /\ ~HasPhrase(TextOf(c), CLARIFICATION_PHRASES)
         /\ ~HasPhrase(TextOf(c), REVISION_PHRASES)
         /\ ~HasPhrase(TextOf(c), SCOPE_CREEP_PHRASES)

\* C16 amended: whenever analyze_with_rules decides a request by the
\* fuzzy-match fallback, no clarification and no scope-creep phrase was
\* detected in the request text, and a revision phrase was detected only if
\* the best similarity is 0.15 or less.
C16_FuzzyMatchPhrases ==
  \A c \in Calls :
    RulesResult(c) /\ DecidedByFuzzyMatch(ResultOf(c))
      => /\ ~HasPhrase(TextOf(c), CLARIFICATION_PHRASES)
         /\ ~HasPhrase(TextOf(c), SCOPE_CREEP_PHRASES)
         /\ HasPhrase(TextOf(c), REVISION_PHRASES)
              => FLeq(BestSimilarity(RequestOf(c)), Frac(15, 100))

\* a revision phrase at similarity 0.15, decided by the default of step 5
C16_Witness ==
  \E c \in Calls :
    /\ RulesResult(c)
    /\ DecidedByFuzzyMatch(ResultOf(c))
    /\ HasPhrase(TextOf(c), REVISION_PHRASES)
    /\ BestSimilarity(RequestOf(c)) = Frac(15, 100)

\* the phrases of the lexicon that occur in the normalized text
PhrasesIn(text, lexicon) ==
  {lexicon[i] : i \in {j \in DOMAIN lexicon : str_contains(_normalize_text(text), lexicon[j])}}
\* the list holds exactly the members of the set, each once
ListsExactly(list, set) ==
  /\ {list[i] : i \in DOMAIN list} = set
  /\ \A i, j \in DOMAIN list : i # j => list[i] # list[j]

\* C17: for every request, one with empty scope_items included, the
\* scope_creep_indicators of the rule-based result are exactly the scope-creep
\* lexicon phrases that occur in the request text, whichever branch decided
\* the classification, and they are pairwise distinct.
C17_IndicatorsCarriedThrough ==
  \A c \in Calls :
    ReturnedFromRules(c)
      => /\ OutcomeOf(c).kind = "return"
         /\ ListsExactly(ResultOf(c).scope_creep_indicators,
                         PhrasesIn(TextOf(c), SCOPE_CREEP_PHRASES))

\* empty scope_items and five scope-creep phrases in the text
C17_Witness ==
  \E c \in Calls :
    /\ RulesResult(c)
    /\ RequestOf(c).scope_items = <<>>
    /\ Len(ResultOf(c).scope_creep_indicators) = 5

\* the clarification and the revision branch carry the incidental indicators
C17_WitnessIncidental ==
  \E c \in Calls :
    /\ RulesResult(c)
    /\ ResultOf(c).classification \in {"clarification_needed", "revision"}
    /\ ResultOf(c).scope_creep_indicators # <<>>

\* the best match that analyze_with_rules computed for the call's request
MatchOf(c) == _find_best_scope_match(TextOf(c), RequestOf(c).scope_items)
NoMatch == [index |-> None, score |-> Frac(0, 1), id |-> None]
\* the match names position i (from 1) of the request's items, with score
MatchIs(match, request, i, score) ==
  match = [index |-> Some(i - 1), score |-> score, id |-> request.scope_items[i].id]
\* the match is the first item of greatest similarity
IsFirstBest(match, request) ==
  MatchIs(match, request, FirstAt(Similarities(request), BestSimilarity(request)),
          BestSimilarity(request))

\* C18 as stated: for every text and every non-empty scope_items, a text
\* sharing no word with any item included, _find_best_scope_match returns the
\* smallest index whose similarity is the maximum over the items, with that
\* score and that item's id; for an empty sequence it returns (None, 0.0, None).
C18_FirstBestMatchAlways ==
  \A c \in Calls :
    ReturnedFromRules(c)
      => IF RequestOf(c).scope_items = <<>>
           THEN MatchOf(c) = NoMatch
           ELSE IsFirstBest(MatchOf(c), RequestOf(c))

\* C18 amended: when some item's similarity to the text is positive,
\* _find_best_scope_match returns the smallest index whose similarity is the
\* maximum over the items, with that score and that item's id; when the
\* sequence is empty or every item's similarity is 0, it returns
\* (None, 0.0, None).
C18_FirstBestMatch ==
  \A c \in Calls :
    ReturnedFromRules(c)
      => IF FLess(Frac(0, 1), BestSimilarity(RequestOf(c)))
           THEN IsFirstBest(MatchOf(c), RequestOf(c))
           ELSE MatchOf(c) = NoMatch

\* two items of equal positive similarity: the first one is the match
C18_Witness ==
  \E c \in Calls :
    /\ RulesResult(c)
    /\ Len(RequestOf(c).scope_items) = 2
    /\ Similarities(RequestOf(c))[1] = Similarities(RequestOf(c))[2]
    /\ FLess(Frac(0, 1), BestSimilarity(RequestOf(c)))
    /\ MatchOf(c).index = Some(0)
    /\ ResultOf(c).matched_scope_item_index = Some(0)

\* scope items that share no word with the text: no match
C18_WitnessNoSharedWord ==
  \E c \in Calls :
    /\ RulesResult(c)
    /\ RequestOf(c).scope_items # <<>>
    /\ BestSimilarity(RequestOf(c)) = Frac(0, 1)
    /\ MatchOf(c) = NoMatch

\* analyze_with_ai returned without any except clause running
Accepted(c) == ReturnedFromAI(c) /\ call[c].log = <<>>

\* C19: when the provider's answer is accepted, analyze_with_ai returns
\* exactly the provider's classification, confidence, reasoning,
\* matched_scope_item_index, suggested_action and scope_creep_indicators, and
\* matched_scope_item_id is None, also when the index refers to a scope item
\* that has an id.
C19_AcceptedAnswerReturned ==
  \A c \in Calls :
    Accepted(c)
      => /\ HasObject(ReplyOf(c))
         /\ OutcomeOf(c) = Return(BuiltFrom(ObjectOf(ReplyOf(c))))
         /\ ResultOf(c).matched_scope_item_id = None

\* an accepted answer whose index names a scope item that has an id
C19_Witness ==
  \E c \in Calls :
    /\ Accepted(c)
    /\ OutcomeOf(c).kind = "return"
    /\ ResultOf(c).matched_scope_item_index = Some(0)
    /\ RequestOf(c).scope_items # <<>>
    /\ RequestOf(c).scope_items[1].id # None
    /\ ResultOf(c).matched_scope_item_id = None

(***************************************************************************)
(* service.py: analysis of the client requests of a project                *)
(***************************************************************************)
\* ScopeItemDTO.from_db_model
from_db_model(db_scope_item) ==
  [id |-> db_scope_item.id, title |-> db_scope_item.title,
   description |-> db_scope_item.description, order |-> db_scope_item.order]

\* AnalysisRequest.from_client_request, with project = client_request.project
from_client_request(client_request, proj) ==
  [request_content |-> client_request.content,
   scope_items |-> [i \in DOMAIN proj.scope_items |-> from_db_model(proj.scope_items[i])],
   project_context |-> proj.description]

\* round(x, 2) of a confidence between 0 and 1, as the Decimal it is stored
\* as: the nearest hundredth, the even one of two equally near
round_2(x) ==
  LET q == (x.n * 100) \div x.d
      r == (x.n * 100) % x.d
  IN  IF 2 * r > x.d \/ (2 * r = x.d /\ q % 2 = 1)
        THEN Frac(q + 1, 100)
        ELSE Frac(q, 100)

\* AnalysisResult.to_client_request_update
to_client_request_update(result) ==
  [classification |-> result.classification,
   confidence |-> round_2(result.confidence),
   analysis_reasoning |-> result.reasoning,
   suggested_action |-> result.suggested_action,
   linked_scope_item_id |-> result.matched_scope_item_id]

\* the members of ScopeClassification compare equal to their string values
CLASSIFICATION_MAP ==
  [classification \in ScopeClassificationType |-> classification]
\* _apply_result_to_request without the assignment of the status
_apply_result_to_request_keeping_status(client_request, result) ==
  [client_request EXCEPT
     !.classification = CLASSIFICATION_MAP[result.classification],
     !.confidence = Some(round_2(result.confidence)),
     !.analysis_reasoning = Some(result.reasoning),
     !.suggested_action = Some(result.suggested_action),
     !.linked_scope_item_id =
        IF result.matched_scope_item_id # None THEN result.matched_scope_item_id ELSE @]

_apply_result_to_request(client_request, result) ==
  [client_request EXCEPT
     !.classification = CLASSIFICATION_MAP[result.classification],
     !.confidence = Some(round_2(result.confidence)),
     !.analysis_reasoning = Some(result.reasoning),
     !.suggested_action = Some(result.suggested_action),
     !.status = "analyzed",
     !.linked_scope_item_id =
        IF result.matched_scope_item_id # None THEN result.matched_scope_item_id ELSE @]

\* the project once analyze_scope has ended with outcome for its request k:
\* the result is applied unless the analysis raised
project_after(proj, k, outcome) ==
  IF outcome.kind = "return"
    THEN [proj EXCEPT !.client_requests[k] = _apply_result_to_request(@, outcome.value)]
    ELSE proj

\* analyze_client_request up to its return, or up to the await of the
\* provider call (session = None, commit = False)
analyze_client_request(c, k) ==
  /\ call[c].pc = "idle"
  /\ IF use_ai(settings)
       THEN /\ call' = [call EXCEPT ![c] =
                 [Idle EXCEPT !.pc = "awaiting", !.entry = "analyze_client_request",
                    !.client_request = Some(k),
                    !.request = Some(from_client_request(project.client_requests[k], project)),
                    !.sent = <<ai_payload(from_client_request(project.client_requests[k], project),
                                          settings.openai_api_key,
                                          settings.openai_model, DefaultTimeout)>>]]
            /\ UNCHANGED project
       ELSE /\ call' = [call EXCEPT ![c] =
                 [Idle EXCEPT !.pc = "returned", !.entry = "analyze_client_request",
                    !.client_request = Some(k),
                    !.request = Some(from_client_request(project.client_requests[k], project)),
                    !.outcome = Some(analyze_with_rules(
                                  from_client_request(project.client_requests[k], project)))]]
            /\ project' = project_after(project, k,
                 analyze_with_rules(from_client_request(project.client_requests[k], project)))
  /\ UNCHANGED settings

analyze_client_request_sync(c, k) ==
  /\ call[c].pc = "idle"
  /\ call' = [call EXCEPT ![c] =
       [Idle EXCEPT !.pc = "returned", !.entry = "analyze_client_request_sync",
          !.client_request = Some(k),
          !.request = Some(from_client_request(project.client_requests[k], project)),
          !.outcome = Some(analyze_with_rules(
                        from_client_request(project.client_requests[k], project)))]]
  /\ project' = project_after(project, k,
       analyze_with_rules(from_client_request(project.client_requests[k], project)))
  /\ UNCHANGED settings

\* analyze_scope has ended with done: the result is applied and returned
client_request_analyzed(c, reply, done) ==
  /\ call' = [call EXCEPT ![c] = returned_from_ai(@, reply, done)]
  /\ project' = project_after(project, call[c].client_request[1], done.outcome)

\* the provider call of analyze_client_request ends and the call runs to
\* its return
analyze_client_request_resumes(c, reply) ==
  /\ call[c].pc = "awaiting"
  /\ call[c].entry = "analyze_client_request"
  /\ client_request_analyzed(c, reply, analyze_with_ai_complete(call[c].request[1], reply))
  /\ UNCHANGED settings

\* the scope items of the project, as stored: each has an id
ProjectScopeItems ==
  << [id |-> Some("uuid-1"), title |-> <<"B","u","i","l","d"," ","l","o","g","i","n"," ","p","a","g","e">>,
        description |-> None, order |-> 0],
     [id |-> Some("uuid-2"), title |-> <<"C","r","e","a","t","e"," ","c","o","n","t","a","c","t"," ","f","o","r","m">>,
        description |-> Some(<<"F","o","r","m"," ","w","i","t","h"," ","e","m","a","i","l">>), order |-> 1] >>

\* a client request as it is inserted: nothing analyzed, nothing linked
NewClientRequest(content) ==
  [content |-> content, status |-> "new", classification |-> "pending",
   confidence |-> None, analysis_reasoning |-> None, suggested_action |-> None,
   linked_scope_item_id |-> None]

\* the client requests a project may hold before a call: new ones, and ones
\* that were analyzed and linked to a scope item before
StoredClientRequests ==
  {NewClientRequest(content) :
     content \in { <<"S","t","i","l","l"," ","w","o","r","k","i","n","g"," ","o","n"," ","t","h","e"," ","l","o","g","i","n"," ","p","a","g","e">>,
                   <<"C","a","n"," ","y","o","u"," ","a","l","s","o"," ","b","u","i","l","d"," ","a"," ","m","o","b","i","l","e"," ","a","p","p","?">> }}
  \cup
  {[NewClientRequest(<<"E","m","a","i","l"," ","f","o","r","m"," ","w","i","t","h"," ","c","o","n","t","a","c","t">>) EXCEPT
      !.status = "addressed", !.classification = "in_scope",
      !.confidence = Some(Frac(9, 10)),
      !.analysis_reasoning = Some(<<"A","I"," ","s","a","y","s"," ","i","n"," ","s","c","o","p","e">>),
      !.suggested_action = Some(<<"P","r","o","c","e","e","d">>),
      !.linked_scope_item_id = Some("uuid-2")],
   [NewClientRequest(<<"C","a","n"," ","y","o","u"," ","a","l","s","o"," ","b","u","i","l","d"," ","a"," ","m","o","b","i","l","e"," ","a","p","p","?">>) EXCEPT
      !.status = "analyzed", !.classification = "in_scope",
      !.confidence = Some(Frac(3, 5)),
      !.analysis_reasoning = Some(<<"A","I"," ","s","a","y","s"," ","i","n"," ","s","c","o","p","e">>),
      !.suggested_action = Some(<<"P","r","o","c","e","e","d">>),
      !.linked_scope_item_id = Some("uuid-1")]}

Projects ==
  [description : {Some(<<"W","e","b"," ","s","h","o","p">>)},
   scope_items : {ProjectScopeItems},
   client_requests : StoredClientRequests \X StoredClientRequests]

ServiceInit ==
  /\ settings \in SettingsChoices
  /\ call = [c \in Calls |-> Idle]
  /\ project \in Projects

ServiceNext ==
  \E c \in Calls :
    \/ \E k \in DOMAIN project.client_requests :
         Sequential(c) /\ analyze_client_request(c, k)
    \/ \E k \in DOMAIN project.client_requests :
         Sequential(c) /\ analyze_client_request_sync(c, k)
    \/ \E reply \in ConcurrentReplies : analyze_client_request_resumes(c, reply)
    \/ caller_continues(c)

ServiceSpec == ServiceInit /\ [][ServiceNext]_vars

\* the call analyzed a client request and returned a result
AnalyzedClientRequest(c) ==
  /\ Returned(c)
  /\ call[c].client_request # None
  /\ OutcomeOf(c).kind = "return"
ClientRequestOf(c) == project.client_requests[call[c].client_request[1]]

\* C20 as stated: after analyze_client_request or analyze_client_request_sync
\* returns result r for a client request in any prior state, one already
\* linked to a scope item included, the request's classification, confidence,
\* analysis_reasoning, suggested_action and linked_scope_item_id equal the
\* fields of r.to_client_request_update(): linked_scope_item_id is
\* r.matched_scope_item_id and confidence is r.confidence rounded to two
\* decimals.
C20_RequestEqualsUpdateFields ==
  \A c \in Calls :
    AnalyzedClientRequest(c)
      => /\ ClientRequestOf(c).classification
               = to_client_request_update(ResultOf(c)).classification
         /\ ClientRequestOf(c).confidence
               = Some(to_client_request_update(ResultOf(c)).confidence)
         /\ ClientRequestOf(c).analysis_reasoning
               = Some(to_client_request_update(ResultOf(c)).analysis_reasoning)
         /\ ClientRequestOf(c).suggested_action
               = Some(to_client_request_update(ResultOf(c)).suggested_action)
         /\ ClientRequestOf(c).linked_scope_item_id
               = to_client_request_update(ResultOf(c)).linked_scope_item_id

\* C21: once analyze_client_request or analyze_client_request_sync has
\* returned for a client request, whatever its status was, the request's
\* status is ANALYZED and its classification is the member of
\* ScopeClassification whose value is the result's classification: one of
\* the four mapped values, never PENDING.
C21_AnalyzedAndClassified ==
  \A c \in Calls :
    AnalyzedClientRequest(c)
      => /\ ClientRequestOf(c).status = "analyzed"
         /\ ClientRequestOf(c).classification = ResultOf(c).classification
         /\ ClientRequestOf(c).classification \in
              {"in_scope", "out_of_scope", "clarification_needed", "revision"}
         /\ ClientRequestOf(c).classification # "pending"

\* a request whose status was ADDRESSED is analyzed again by the rules
C21_Witness ==
  \E c \in Calls :
    /\ AnalyzedClientRequest(c)
    /\ ReturnedFromRules(c)
    /\ ClientRequestOf(c).content = <<"E","m","a","i","l"," ","f","o","r","m"," ","w","i","t","h"," ","c","o","n","t","a","c","t">>
    /\ ClientRequestOf(c).status = "analyzed"
    /\ ClientRequestOf(c).classification = "in_scope"

\* a new, pending request is analyzed by the provider's answer
C21_WitnessPending ==
  \E c \in Calls :
    /\ AnalyzedClientRequest(c)
    /\ ReturnedFromAI(c)
    /\ ClientRequestOf(c).content = <<"S","t","i","l","l"," ","w","o","r","k","i","n","g"," ","o","n"," ","t","h","e"," ","l","o","g","i","n"," ","p","a","g","e">>
    /\ ClientRequestOf(c).status = "analyzed"

(***************************************************************************)
(* service.py: bulk_analyze_project_requests                               *)
(***************************************************************************)
\* the loop passing over no request
bulk_skips_nothing(client_request, only_pending) ==
  FALSE

\* line 131: the loop passes over the request
bulk_skips(client_request, only_pending) ==
  only_pending /\ client_request.classification # "pending"

\* lines 130-135: the for loop from request k on, up to the await of a
\* provider call, an exception of the analysis or the end of the list;
\* bulk_analyzed is the loop from the end of the analysis of request k
RECURSIVE bulk_loop(_, _, _, _, _)
RECURSIVE bulk_analyzed(_, _, _, _, _, _)
bulk_analyzed(config, proj, only_pending, k, results, outcome) ==
  IF outcome.kind = "raise"
    THEN [project |-> proj, results |-> results, awaiting |-> None, raised |-> Some(outcome.exc)]
    ELSE bulk_loop(config, project_after(proj, k, outcome), only_pending, k + 1,
           Append(results, [client_request |-> k, result |-> outcome.value]))

bulk_loop(config, proj, only_pending, k, results) ==
  IF k > Len(proj.client_requests)
    THEN [project |-> proj, results |-> results, awaiting |-> None, raised |-> None]
  ELSE IF bulk_skips(proj.client_requests[k], only_pending)
    THEN bulk_loop(config, proj, only_pending, k + 1, results)
  ELSE IF use_ai(config)
    THEN [project |-> proj, results |-> results, awaiting |-> Some(k), raised |-> None]
  ELSE bulk_analyzed(config, proj, only_pending, k, results,
         analyze_with_rules(from_client_request(proj.client_requests[k], proj)))

\* the call and the project once the loop has run to run: the call awaits
\* the provider for request run.awaiting, or it has ended
bulk_proceeds(c, record, run) ==
  /\ call' = [call EXCEPT ![c] =
       IF run.awaiting # None
         THEN [record EXCEPT !.pc = "awaiting", !.client_request = run.awaiting,
                 !.request = Some(from_client_request(
                               run.project.client_requests[run.awaiting[1]], run.project)),
                 !.sent = Append(@, ai_payload(
                            from_client_request(
                              run.project.client_requests[run.awaiting[1]], run.project),
                            settings.openai_api_key, settings.openai_model, DefaultTimeout)),
                 !.results = run.results]
         ELSE [record EXCEPT !.pc = "returned", !.client_request = None,
                 !.request = None, !.results = run.results,
                 !.outcome = Some(IF run.raised # None
                                    THEN Raise(run.raised[1])
                                    ELSE Return(run.results))]]
  /\ project' = run.project

\* bulk_analyze_project_requests up to its return, or up to the await of
\* the first provider call
bulk_analyze_project_requests(c, only_pending) ==
  /\ call[c].pc = "idle"
  /\ bulk_proceeds(c,
       [Idle EXCEPT !.entry = "bulk_analyze_project_requests",
                    !.only_pending = Some(only_pending)],
       bulk_loop(settings, project, only_pending, 1, <<>>))
  /\ UNCHANGED settings

\* the provider call for the request in hand ends; the result is applied
\* and the loop goes on
bulk_analyze_resumes(c, reply) ==
  /\ call[c].pc = "awaiting"
  /\ call[c].entry = "bulk_analyze_project_requests"
  /\ bulk_proceeds(c,
       [call[c] EXCEPT !.reply = Some(reply),
          !.log = @ \o analyze_with_ai_complete(call[c].request[1], reply).log],
       bulk_analyzed(settings, project, call[c].only_pending[1],
         call[c].client_request[1], call[c].results,
         analyze_with_ai_complete(call[c].request[1], reply).outcome))
  /\ UNCHANGED settings

BulkNext ==
  \E c \in Calls :
    \/ \E only_pending \in BOOLEAN :
         Sequential(c) /\ bulk_analyze_project_requests(c, only_pending)
    \/ \E reply \in ConcurrentReplies : bulk_analyze_resumes(c, reply)
    \/ caller_continues(c)

BulkSpec == ServiceInit /\ [][BulkNext]_vars

Pending(proj, k) == proj.client_requests[k].classification = "pending"
NonePending(proj) == \A k \in DOMAIN proj.client_requests : ~Pending(proj, k)
BulkCall(record) ==
  /\ record.entry = "bulk_analyze_project_requests"
  /\ record.only_pending = Some(TRUE)
\* the requests of the results from position i on
ResultRows(results, i) == {results[j].client_request : j \in i..Len(results)}

\* what a step of a call of bulk_analyze_project_requests(only_pending=True)
\* does, from the results it had before to the results it has after
BulkStepAnalyzesPendingOnly(before, after) ==
  \* results are only added, in the order of project.client_requests
  /\ Len(before.results) <= Len(after.results)
  /\ SubSeq(after.results, 1, Len(before.results)) = before.results
  /\ \A i, j \in DOMAIN after.results :
       i < j => after.results[i].client_request < after.results[j].client_request
  \* each request analyzed in the step was PENDING and holds its result
  /\ \A i \in (Len(before.results) + 1)..Len(after.results) :
       /\ Pending(project, after.results[i].client_request)
       /\ project'.client_requests[after.results[i].client_request]
            = _apply_result_to_request(
                project.client_requests[after.results[i].client_request],
                after.results[i].result)
  \* every other request keeps every field
  /\ DOMAIN project'.client_requests = DOMAIN project.client_requests
  /\ \A k \in DOMAIN project.client_requests :
       k \notin ResultRows(after.results, Len(before.results) + 1)
         => project'.client_requests[k] = project.client_requests[k]
  \* the request in hand is the first one that is PENDING
  /\ after.pc = "awaiting"
       => /\ Pending(project', after.client_request[1])
          /\ \A k \in 1..(after.client_request[1] - 1) : ~Pending(project', k)
  \* the call returns its results when no request is PENDING any more
  /\ after.pc = "returned"
       => /\ NonePending(project')
          /\ after.outcome = Some(Return(after.results))
  \* a call that finds no PENDING request analyzes nothing
  /\ (before.pc = "idle" /\ NonePending(project))
       => /\ after.pc = "returned"
          /\ after.outcome = Some(Return(<<>>))
          /\ project' = project
  \* a call that does not await analyzes the PENDING requests, all at once
  /\ (before.pc = "idle" /\ after.pc = "returned")
       => ResultRows(after.results, 1) = {k \in DOMAIN project.client_requests : Pending(project, k)}

\* C22: bulk_analyze_project_requests with only_pending=True analyzes
\* exactly the requests of the project whose classification is PENDING, in
\* the order of project.client_requests, and leaves every field of every
\* other request unchanged; when it returns no request of the project is
\* PENDING, and a call repeated then analyzes nothing and returns an empty
\* list.
C22_BulkAnalyzesPendingOnly ==
  [][\A c \in Calls :
       (BulkCall(call'[c]) /\ call'[c] # call[c] /\ call'[c].pc # "idle")
         => BulkStepAnalyzesPendingOnly(call[c], call'[c])]_vars

\* the call analyzed the second request, which was PENDING, and passed over
\* the first, which keeps the status and the link it had
C22_Witness ==
  \E c \in Calls :
    /\ BulkCall(call[c])
    /\ Returned(c)
    /\ Len(call[c].results) = 1
    /\ call[c].results[1].client_request = 2
    /\ project.client_requests[1].status = "addressed"
    /\ project.client_requests[1].linked_scope_item_id = Some("uuid-2")
    /\ project.client_requests[2].status = "analyzed"

\* both requests were PENDING and were analyzed in order, each after a
\* provider call
C22_WitnessInOrder ==
  \E c \in Calls :
    /\ BulkCall(call[c])
    /\ Returned(c)
    /\ Len(call[c].sent) = 2
    /\ Len(call[c].results) = 2
    /\ call[c].results[1].client_request = 1
    /\ call[c].results[2].client_request = 2

\* the call is repeated once the requests, PENDING at first, were analyzed
C22_WitnessRepeated ==
  \E c \in Calls :
    /\ BulkCall(call[c])
    /\ Returned(c)
    /\ call[c].outcome = Some(Return(<<>>))
    /\ \A k \in DOMAIN project.client_requests :
         /\ project.client_requests[k].content = <<"S","t","i","l","l"," ","w","o","r","k","i","n","g"," ","o","n"," ","t","h","e"," ","l","o","g","i","n"," ","p","a","g","e">>
         /\ project.client_requests[k].status = "analyzed"

\* C23: in every result of analyze_with_rules, a matched_scope_item_index
\* that is present comes with the id of request.scope_items[index], an
\* absent index comes with no id, in_scope and revision results carry an
\* index and out_of_scope results carry none.
C23_MatchedIdFollowsIndex ==
  \A c \in Calls :
    RulesResult(c)
      => /\ ResultOf(c).matched_scope_item_index # None
              => /\ ResultOf(c).matched_scope_item_index[1] + 1
                      \in DOMAIN RequestOf(c).scope_items
                 /\ ResultOf(c).matched_scope_item_id
                      = RequestOf(c).scope_items[
                          ResultOf(c).matched_scope_item_index[1] + 1].id
         /\ ResultOf(c).matched_scope_item_index = None
              => ResultOf(c).matched_scope_item_id = None
         /\ ResultOf(c).classification \in {"in_scope", "revision"}
              => ResultOf(c).matched_scope_item_index # None
         /\ ResultOf(c).classification = "out_of_scope"
              => ResultOf(c).matched_scope_item_index = None

\* an in_scope result matched to the second item, with that item's id
C23_Witness ==
  \E c \in Calls :
    /\ RulesResult(c)
    /\ ResultOf(c).classification = "in_scope"
    /\ ResultOf(c).matched_scope_item_index = Some(1)
    /\ ResultOf(c).matched_scope_item_id = Some("uuid-2")
    /\ RequestOf(c).scope_items[1].id # Some("uuid-2")

\* a revision result matched to an item that has no id
C23_WitnessNoId ==
  \E c \in Calls :
    /\ RulesResult(c)
    /\ ResultOf(c).classification = "revision"
    /\ ResultOf(c).matched_scope_item_index # None
    /\ ResultOf(c).matched_scope_item_id = None

\* a clarification_needed result without a match
C23_WitnessNoIndex ==
  \E c \in Calls :
    /\ RulesResult(c)
    /\ ResultOf(c).classification = "clarification_needed"
    /\ RequestOf(c).scope_items # <<>>
    /\ ResultOf(c).matched_scope_item_index = None

\* the one action of each classification
ActionOf(classification) ==
  CASE classification = "in_scope" -> ActionInScope
    [] classification = "out_of_scope" -> ActionOutOfScope
    [] classification = "clarification_needed" -> ActionClarification
    [] classification = "revision" -> ActionRevision
Recommends(action, word) == str_contains(str_lower(action), word)

\* C24: in every result of analyze_with_rules the suggested_action is
\* determined by the classification alone: results of the same
\* classification, from any branch, the empty-scope guard included, carry
\* the same non-empty action, and the out_of_scope action recommends a
\* proposal or quote.
C24_ActionByClassification ==
  \A c \in Calls :
    RulesResult(c)
      => /\ ResultOf(c).suggested_action = ActionOf(ResultOf(c).classification)
         /\ ResultOf(c).suggested_action # <<>>
         /\ ResultOf(c).classification = "out_of_scope"
              => \/ Recommends(ResultOf(c).suggested_action, <<"p","r","o","p","o","s","a","l">>)
                 \/ Recommends(ResultOf(c).suggested_action, <<"q","u","o","t","e">>)

\* an out_of_scope result of the empty-scope guard
C24_Witness ==
  \E c \in Calls :
    /\ RulesResult(c)
    /\ RequestOf(c).scope_items = <<>>
    /\ ResultOf(c).classification = "out_of_scope"
    /\ ResultOf(c).suggested_action = ActionOutOfScope

\* an out_of_scope result of the scope-creep branch
C24_WitnessOtherBranch ==
  \E c \in Calls :
    /\ RulesResult(c)
    /\ RequestOf(c).scope_items # <<>>
    /\ ResultOf(c).scope_creep_indicators # <<>>
    /\ ResultOf(c).classification = "out_of_scope"
    /\ ResultOf(c).suggested_action = ActionOutOfScope

\* C25 as stated: for a request with empty scope_items the suggested action
\* of the rule-based result tells the freelancer to define the scope before
\* analyzing.
C25_EmptyScopeAdvisesDefiningScope ==
  \A c \in Calls :
    (RulesResult(c) /\ RequestOf(c).scope_items = <<>>)
      => /\ Recommends(ResultOf(c).suggested_action, <<"d","e","f","i","n","e">>)
         /\ Recommends(ResultOf(c).suggested_action, <<"s","c","o","p","e">>)

(***************************************************************************)
(* Callers of the text functions of rules_analyzer.py and of               *)
(* _parse_ai_response                                                      *)
(***************************************************************************)
\* texts with upper case, digits, punctuation, the underscore, runs of
\* whitespace and phrases of the lexicons
FunctionTexts ==
  { <<>>,
    <<" "," "," ">>,
    <<"1","2","3">>,
    <<"P","a","g","e","2"," ","d","o","n","e">>,
    <<"p","a","g","e"," ","d","o","n","e">>,
    <<"s","n","a","k","e","_","c","a","s","e">>,
    <<"L","o","g","-","i","n"," ","p","a","g","e","!">>,
    <<"l","o","g"," ","i","n"," ","P","A","G","E">>,
    <<"t","h","e"," "," ","c","a","t","\t","s","a","t">>,
    <<"a","1","b">>,
    <<"H","e","l","l","o",","," ","W","o","r","l","d">>,
    <<"x">>,
    <<"C","a","n"," "," "," ","y","o","u","\t","A","L","S","O"," ","a","d","d"," ","a"," ","p","a","g","e">>,
    <<"a","l","s","o"," ","a","l","s","o">>,
    <<"a","l","s","o","r","a","n">>,
    <<" "," ","O","h","\n","a","n","d"," "," ","r","e","a","l"," ","q","u","i","c","k"," ">>,
    <<"n","o"," ","p","h","r","a","s","e"," ","h","e","r","e">> }

\* phrase lists for _find_phrases
PhraseLists ==
  { <<<<"c","a","n"," ","y","o","u"," ","a","l","s","o">>, <<"a","l","s","o">>, <<"o","h"," ","a","n","d">>, <<"r","e","a","l"," ","q","u","i","c","k">>>>,
    <<<<"R","e","a","l"," ","Q","u","i","c","k">>, <<"A","L","S","O">>>>,
    <<>> }

\* the caller holds the value a function returned for its arguments
function_returns(c, entry, arguments, value) ==
  /\ call[c].pc = "idle"
  /\ call' = [call EXCEPT ![c] =
       [Idle EXCEPT !.pc = "returned", !.entry = entry,
          !.request = Some(arguments), !.outcome = Some(value)]]
  /\ UNCHANGED <<settings, project>>

\* the three grave accents of a code fence; a string of the model cannot
\* hold the grave accent, and "'" stands for it in every text below
CodeFence == <<"'","'","'">>

\* text.startswith(prefix)
str_startswith(t, p) == Len(p) <= Len(t) /\ SubSeq(t, 1, Len(p)) = p

\* text.split(sep) for a separator of one character
RECURSIVE str_split(_, _)
str_split(t, sep) ==
  IF \A i \in DOMAIN t : t[i] # sep THEN <<t>>
  ELSE LET i == CHOOSE i \in DOMAIN t : t[i] = sep /\ \A j \in 1..(i - 1) : t[j] # sep
       IN  <<SubSeq(t, 1, i - 1)>> \o str_split(SubSeq(t, i + 1, Len(t)), sep)

\* the JSON documents of the model, each with the value json.loads gives
JsonDocuments ==
  { [text |-> <<"{","\"","a","\"",":"," ","1","}">>, value |-> JsonObject([a |-> PyInt(1)])],
    [text |-> <<"{","\n"," ","\"","a","\"",":"," ","1","\n","}">>, value |-> JsonObject([a |-> PyInt(1)])],
    [text |-> <<"[","]">>, value |-> PyList(<<>>)] }

\* json.loads(text) on a text: whitespace around the document is accepted,
\* anything else than one document is an error
json_loads_text(text) ==
  IF \E d \in JsonDocuments : d.text = str_strip(text)
    THEN Return((CHOOSE d \in JsonDocuments : d.text = str_strip(text)).value)
    ELSE Raise("JSONDecodeError")

\* _parse_ai_response that drops the first line only
_parse_ai_response_text_keeping_fence(response_text) ==
  IF str_startswith(str_strip(response_text), CodeFence)
    THEN json_loads_text(str_join(<<"\n">>, Tail(str_split(str_strip(response_text), "\n"))))
    ELSE json_loads_text(str_strip(response_text))

\* lines 66-77, on the characters of the answer
_parse_ai_response_text(response_text) ==
  LET text == str_strip(response_text)
      lines1 == Tail(str_split(text, "\n"))
      lines2 == IF lines1 # <<>> /\ str_strip(lines1[Len(lines1)]) = CodeFence
                  THEN SubSeq(lines1, 1, Len(lines1) - 1)
                  ELSE lines1
  IN  IF str_startswith(text, CodeFence)
        THEN json_loads_text(str_join(<<"\n">>, lines2))
        ELSE json_loads_text(text)

\* the texts between the fences: the documents and a text that is not JSON
FencedTexts == {d.text : d \in JsonDocuments} \cup {<<"o","o","p","s">>}
LanguageTags == {<<>>, <<"j","s","o","n">>}
ClosingFences == {CodeFence, <<" "," ","'","'","'","\r">>}
SurroundingWhitespace == {<<>>, <<" ","\n">>, <<"\n","\n"," "," ">>}

\* document wrapped in a code fence: an opening fence with its language
\* tag, the document, a closing fence, and whitespace around the whole
Fenced(lead, lang, document, closing, trail) ==
  lead \o CodeFence \o lang \o <<"\n">> \o document \o <<"\n">> \o closing \o trail

\* the answers of a provider: fenced, plain, and three that are neither:
\* fences and document on one line, a fence never closed, prose before
\* the fence
ResponseTexts ==
  {Fenced(lead, lang, document, closing, trail) :
     lead \in SurroundingWhitespace, lang \in LanguageTags, document \in FencedTexts,
     closing \in ClosingFences, trail \in SurroundingWhitespace}
  \cup {lead \o document \o trail :
     lead \in SurroundingWhitespace, document \in FencedTexts, trail \in SurroundingWhitespace}
  \cup { <<"'","'","'","{","\"","a","\"",":"," ","1","}","'","'","'">>,
         <<"'","'","'","j","s","o","n","\n","{","\"","a","\"",":"," ","1","}">>,
         <<"S","u","r","e",":","\n","'","'","'","\n","[","]","\n","'","'","'">> }

FunctionsNext ==
  \E c \in Calls :
    \/ \E text \in FunctionTexts :
         /\ Sequential(c)
         /\ function_returns(c, "_tokenize", <<text>>, Return(_tokenize(text)))
    \/ \E text1 \in FunctionTexts, text2 \in FunctionTexts :
         /\ Sequential(c)
         /\ function_returns(c, "_calculate_word_overlap", <<text1, text2>>,
              Return(_calculate_word_overlap(text1, text2)))
    \/ \E text \in FunctionTexts, phrases \in PhraseLists :
         /\ Sequential(c)
         /\ function_returns(c, "_find_phrases", <<text, phrases>>,
              Return(_find_phrases(text, phrases)))
    \/ \E response_text \in ResponseTexts :
         /\ Sequential(c)
         /\ function_returns(c, "_parse_ai_response", <<response_text>>,
              _parse_ai_response_text(response_text))
    \/ caller_continues(c)

FunctionsSpec == Init /\ [][FunctionsNext]_vars

\* the call of the function named entry has returned
Called(c, entry) == Returned(c) /\ call[c].entry = entry
ArgumentsOf(c) == call[c].request[1]
ValueOf(c) == OutcomeOf(c).value

\* C26: for all texts a and b, _calculate_word_overlap(a, b) is
\* |A \cap B| / |A \cup B| over their token sets A and B, lies between 0.0
\* and 1.0, equals _calculate_word_overlap(b, a), and is 0.0 when either
\* token set is empty.
C26_WordOverlapIsJaccard ==
  \A c \in Calls :
    Called(c, "_calculate_word_overlap")
      => /\ (_tokenize(ArgumentsOf(c)[1]) # {} /\ _tokenize(ArgumentsOf(c)[2]) # {})
              => ValueOf(c).n * Cardinality(_tokenize(ArgumentsOf(c)[1])
                                             \cup _tokenize(ArgumentsOf(c)[2]))
                   = ValueOf(c).d * Cardinality(_tokenize(ArgumentsOf(c)[1])
                                                  \cap _tokenize(ArgumentsOf(c)[2]))
         /\ (_tokenize(ArgumentsOf(c)[1]) = {} \/ _tokenize(ArgumentsOf(c)[2]) = {})
              => ValueOf(c).n = 0
         /\ ValueOf(c).d > 0
         /\ 0 <= ValueOf(c).n
         /\ ValueOf(c).n <= ValueOf(c).d
         /\ ValueOf(c) = _calculate_word_overlap(ArgumentsOf(c)[2], ArgumentsOf(c)[1])

\* two texts that share one of their four words: the similarity is 1/4
C26_Witness ==
  \E c \in Calls :
    /\ Called(c, "_calculate_word_overlap")
    /\ ArgumentsOf(c) = <<<<"L","o","g","-","i","n"," ","p","a","g","e","!">>, <<"p","a","g","e"," ","d","o","n","e">>>>
    /\ ValueOf(c) = [n |-> 1, d |-> 4]

\* a text without a word beside a text with words
C26_WitnessEmpty ==
  \E c \in Calls :
    /\ Called(c, "_calculate_word_overlap")
    /\ ArgumentsOf(c) = <<<<"1","2","3">>, <<"p","a","g","e"," ","d","o","n","e">>>>
    /\ ValueOf(c) = [n |-> 0, d |-> 1]

\* C27 as stated: for every non-empty text a the similarity of a with
\* itself is 1.0, and for every text a the similarity of a with the empty
\* text is 0.0.
C27_SelfSimilarityOfNonEmptyText ==
  \A c \in Calls :
    Called(c, "_calculate_word_overlap")
      => /\ (ArgumentsOf(c)[1] = ArgumentsOf(c)[2] /\ ArgumentsOf(c)[1] # <<>>)
              => ValueOf(c) = [n |-> 1, d |-> 1]
         /\ ArgumentsOf(c)[2] = <<>> => ValueOf(c) = [n |-> 0, d |-> 1]

\* C27, amended: for every text a in which _tokenize finds a word the
\* similarity of a with itself is 1.0; for a text without a word it is
\* 0.0; the similarity of any text with the empty text is 0.0.
C27_SelfSimilarity ==
  \A c \in Calls :
    Called(c, "_calculate_word_overlap")
      => /\ (ArgumentsOf(c)[1] = ArgumentsOf(c)[2] /\ _tokenize(ArgumentsOf(c)[1]) # {})
              => ValueOf(c) = [n |-> 1, d |-> 1]
         /\ (ArgumentsOf(c)[1] = ArgumentsOf(c)[2] /\ _tokenize(ArgumentsOf(c)[1]) = {})
              => ValueOf(c) = [n |-> 0, d |-> 1]
         /\ ArgumentsOf(c)[2] = <<>> => ValueOf(c) = [n |-> 0, d |-> 1]

\* a text of three words compared with itself
C27_Witness ==
  \E c \in Calls :
    /\ Called(c, "_calculate_word_overlap")
    /\ ArgumentsOf(c) = <<<<"t","h","e"," "," ","c","a","t","\t","s","a","t">>, <<"t","h","e"," "," ","c","a","t","\t","s","a","t">>>>
    /\ ValueOf(c) = [n |-> 1, d |-> 1]

\* a non-empty text without a word compared with itself
C27_WitnessNoWord ==
  \E c \in Calls :
    /\ Called(c, "_calculate_word_overlap")
    /\ ArgumentsOf(c) = <<<<"1","2","3">>, <<"1","2","3">>>>
    /\ ValueOf(c) = [n |-> 0, d |-> 1]

\* a text with words compared with the empty text
C27_WitnessEmptyText ==
  \E c \in Calls :
    /\ Called(c, "_calculate_word_overlap")
    /\ ArgumentsOf(c) = <<<<"p","a","g","e"," ","d","o","n","e">>, <<>>>>
    /\ ValueOf(c) = [n |-> 0, d |-> 1]

\* the maximal runs of the letters a to z in t
LetterRuns(t) ==
  {SubSeq(t, i, j) : <<i, j>> \in
     {p \in (1..Len(t)) \X (1..Len(t)) :
        /\ p[1] <= p[2]
        /\ \A k \in p[1]..p[2] : t[k] \in AsciiLower
        /\ (p[1] = 1 \/ t[p[1] - 1] \notin AsciiLower)
        /\ (p[2] = Len(t) \/ t[p[2] + 1] \notin AsciiLower)}}

\* C28 as stated: for every text, _tokenize returns exactly the set of the
\* maximal runs of alphabetic characters of the lower-cased text, every
\* other character, digit or punctuation, being a separator, so that a run
\* of letters next to a digit is still a token.
C28_TokensAreLetterRuns ==
  \A c \in Calls :
    Called(c, "_tokenize")
      => ValueOf(c) = LetterRuns(str_lower(ArgumentsOf(c)[1]))

\* the text occurs in the normalized text at some position
OccursIn(normalized, phrase) ==
  \E i \in 0..(Len(normalized) - Len(phrase)) :
    \A k \in 1..Len(phrase) : normalized[i + k] = phrase[k]
\* sub holds the entries of seq that keep accepts, each once, in the order
\* of seq: its i-th entry is the i-th accepted entry of seq
IsSelection(sub, seq, keep(_)) ==
  /\ Len(sub) = Cardinality({k \in DOMAIN seq : keep(seq[k])})
  /\ \A k \in DOMAIN seq :
       keep(seq[k])
         => sub[Cardinality({m \in 1..k : keep(seq[m])})] = seq[k]
\* the text with every blank between words made a tab and two blanks
RECURSIVE Widened(_)
Widened(text) ==
  IF text = <<>> THEN <<>>
  ELSE IF Head(text) = " " THEN <<"\t", " ", " ">> \o Widened(Tail(text))
  ELSE <<Head(text)>> \o Widened(Tail(text))

\* C29: for every text and phrase list, _find_phrases returns exactly the
\* phrases of the list that occur as a literal substring of the lower-cased,
\* whitespace-collapsed, trimmed text, in the order of the list and one for
\* each entry of the list; the letter case of the text and the kind and
\* amount of whitespace between its words make no difference, and a phrase
\* inside a longer word is found.
C29_FindPhrasesIsFilter ==
  \A c \in Calls :
    Called(c, "_find_phrases")
      => /\ IsSelection(ValueOf(c), ArgumentsOf(c)[2],
              LAMBDA phrase :
                OccursIn(_normalize_text(ArgumentsOf(c)[1]), str_lower(phrase)))
         /\ ValueOf(c) = _find_phrases(str_lower(ArgumentsOf(c)[1]), ArgumentsOf(c)[2])
         /\ ValueOf(c) = _find_phrases(Widened(ArgumentsOf(c)[1]), ArgumentsOf(c)[2])
         /\ ValueOf(c) = _find_phrases(<<" ", "\n">> \o ArgumentsOf(c)[1] \o <<"\t">>,
                                        ArgumentsOf(c)[2])

\* phrases found across upper case and runs of whitespace, in list order
C29_Witness ==
  \E c \in Calls :
    /\ Called(c, "_find_phrases")
    /\ ArgumentsOf(c)[1] = <<"C","a","n"," "," "," ","y","o","u","\t","A","L","S","O"," ","a","d","d"," ","a"," ","p","a","g","e">>
    /\ ValueOf(c) = <<<<"c","a","n"," ","y","o","u"," ","a","l","s","o">>, <<"a","l","s","o">>>>

\* a phrase found inside a longer word, and once though it occurs twice
C29_WitnessInsideWord ==
  \E c \in Calls :
    /\ Called(c, "_find_phrases")
    /\ ArgumentsOf(c)[1] \in {<<"a","l","s","o","r","a","n">>, <<"a","l","s","o"," ","a","l","s","o">>}
    /\ ValueOf(c) = <<<<"a","l","s","o">>>>

\* C30: parsing a provider answer whose JSON is wrapped in a markdown code
\* fence (an opening fence with an optional language tag and a closing
\* fence, with any whitespace around) yields what parsing the unwrapped
\* JSON yields; an answer without a fence is parsed as it is.
C30_FenceIsStripped ==
  \A c \in Calls :
    Called(c, "_parse_ai_response")
      => /\ \A lead \in SurroundingWhitespace, lang \in LanguageTags, document \in FencedTexts,
              closing \in ClosingFences, trail \in SurroundingWhitespace :
                ArgumentsOf(c)[1] = Fenced(lead, lang, document, closing, trail)
                  => OutcomeOf(c) = json_loads_text(document)
         /\ ~str_startswith(str_strip(ArgumentsOf(c)[1]), CodeFence)
              => OutcomeOf(c) = json_loads_text(ArgumentsOf(c)[1])

\* a document of three lines in a fence tagged json, with whitespace before
\* the opening fence, around the closing fence and after it
C30_Witness ==
  \E c \in Calls :
    /\ Called(c, "_parse_ai_response")
    /\ ArgumentsOf(c)[1] =
         Fenced(<<" ","\n">>, <<"j","s","o","n">>, <<"{","\n"," ","\"","a","\"",":"," ","1","\n","}">>,
                <<" "," ","'","'","'","\r">>, <<"\n","\n"," "," ">>)
    /\ OutcomeOf(c) = Return(JsonObject([a |-> PyInt(1)]))

\* an answer without a fence
C30_WitnessPlain ==
  \E c \in Calls :
    /\ Called(c, "_parse_ai_response")
    /\ ArgumentsOf(c)[1] = <<" ","\n","[","]">>
    /\ OutcomeOf(c) = Return(PyList(<<>>))

====
